---- MODULE Spec2Model ----
(***************************************************************************)
(* r-redis: the RESP codec (encoders of src/resp, the combinator decoder   *)
(* of src/respv2, the hand-written bulk-string decoder of src/resp) and    *)
(* the per-connection loop of src/network.rs with the command layer and    *)
(* the backend it drives.                                                  *)
(*                                                                         *)
(* A byte is a one-character string; a buffer is a sequence of bytes.      *)
(* The byte 0xFF, which no UTF-8 text contains, is written "xFF".          *)
(***************************************************************************)
EXTENDS Integers, Sequences, FiniteSets, TLC

VARIABLES
    \* ---- codec harness (CodecSpec): one buffer and the calls made on it
    buf,        \* the BytesMut handed to the codec
    before,     \* buf as it was when the last call was made
    pending,    \* bytes of the input not yet appended to buf
    frame,      \* the frame whose encoding seeded the input (NoFrame: raw bytes)
    enc,        \* the encoding of `frame` (<<>> for raw bytes)
    call,       \* the last call: "none", "decode", "expect_length", "bulk_decode"
    ret,        \* what the last call returned
    fed,        \* the rest of the input was appended after a NotCompleted
    \* ---- connection loop (Spec): one connection served by handle_stream
    sock,       \* bytes the client sent that the server has not read yet
    plan,       \* the requests the client sends on this connection
    script,     \* chunks the client will still send
    peerClosed, \* the client closed its end
    rbuf,       \* Framed's read buffer
    readable,   \* Framed's is_readable flag
    pc,         \* position of handle_stream: "next", "handle", "send", "closed"
    cur,        \* the frame framed.next() returned
    reply,      \* the frame handle_request returned
    out,        \* frames written to the client, in order
    kv,         \* Backend.map
    hkv,        \* Backend.hmap
    \* ---- history of the connection (for stating the claims)
    reqs,       \* frames the codec returned, in order
    lastDecode, \* outcome of the last codec decode: "none", "frame", "NotCompleted", "error"
    framingErrs,\* number of decodes that failed with a framing error
    afterErr,   \* frames the codec returned after a framing error
    \* ---- command harness (CmdSpec): a second task calling the backend
    snap,       \* the mapping a call of backend.hgetall returned to that task
    \* ---- backend harness (SAddSpec): tasks calling Backend::sadd concurrently
    sets,       \* Backend.set: key -> members
    guard,      \* key -> the task holding the entry of Backend.set for it (0: none)
    task,       \* task -> its call of sadd: position, arguments, locals
    sets0,      \* Backend.set before any call
    \* ---- the listener (ListenSpec): main's accept loop and the tasks it spawns
    listener,   \* position of main: "accept", "exited"
    conns,      \* the connections accepted so far, in order: state and replies sent
    acceptErrs  \* number of calls of accept that returned an error

cvars == <<buf, before, pending, frame, enc, call, ret, fed>>
nvars == <<plan, sock, script, peerClosed, rbuf, readable, pc, cur, reply, out, kv, hkv,
           reqs, lastDecode, framingErrs, afterErr>>
svars == <<snap>>
xvars == <<sets, guard, task, sets0>>
lvars == <<listener, conns, acceptErrs>>
vars == <<buf, before, pending, frame, enc, call, ret, fed,
          plan, sock, script, peerClosed, rbuf, readable, pc, cur, reply, out, kv, hkv,
          reqs, lastDecode, framingErrs, afterErr, snap,
          sets, guard, task, sets0, listener, conns, acceptErrs>>

----------------------------------------------------------------------------
(* Bytes *)

CR == "\r"
LF == "\n"
CRLF == <<CR, LF>>
CRLF_LEN == Len(CRLF)

Digits == <<"0", "1", "2", "3", "4", "5", "6", "7", "8", "9">>
IsDigit(b) == \E i \in 1..10 : Digits[i] = b
DigitVal(b) == (CHOOSE i \in 1..10 : Digits[i] = b) - 1
DigitChar(d) == Digits[d + 1]

\* The bytes of the model in ASCII order (the order BTreeMap<String, _> keeps).
AsciiOrder ==
    <<LF, CR, "#", "$", "%", "&", "*", "+", ",", "-",
      "0", "1", "2", "3", "4", "5", "6", "7", "8", "9", ":",
      "E", "G", "S", "T", "_",
      "a", "b", "c", "d", "e", "f", "g", "h", "k", "l", "m", "n", "o", "s", "t", "v", "x", "~">>
Ord(b) == CHOOSE i \in 1..Len(AsciiOrder) : AsciiOrder[i] = b

Take(s, n) == SubSeq(s, 1, n)
Drop(s, n) == SubSeq(s, n + 1, Len(s))
StartsWith(s, p) == Len(s) >= Len(p) /\ Take(s, Len(p)) = p
Min(S) == CHOOSE x \in S : \A y \in S : x <= y

RECURSIVE LexLess(_, _)
LexLess(a, b) ==
    IF a = <<>> THEN b # <<>>
    ELSE IF b = <<>> THEN FALSE
    ELSE IF Head(a) = Head(b) THEN LexLess(Tail(a), Tail(b))
    ELSE Ord(Head(a)) < Ord(Head(b))

\* The keys of a BTreeMap in iteration order.
RECURSIVE SortedKeys(_)
SortedKeys(S) ==
    IF S = {} THEN <<>>
    ELSE LET m == CHOOSE k \in S : \A j \in S \ {k} : LexLess(k, j)
         IN <<m>> \o SortedKeys(S \ {m})

\* format!("{}", n) for an integer
RECURSIVE NatToBytes(_)
NatToBytes(n) ==
    IF n < 10 THEN <<DigitChar(n)>>
    ELSE NatToBytes(n \div 10) \o <<DigitChar(n % 10)>>
IntToBytes(n) == IF n < 0 THEN <<"-">> \o NatToBytes(-n) ELSE NatToBytes(n)

\* str::parse::<i64> of a non-empty digit string: its value
RECURSIVE DigitsToNat(_)
DigitsToNat(ds) ==
    IF ds = <<>> THEN 0
    ELSE DigitsToNat(Take(ds, Len(ds) - 1)) * 10 + DigitVal(ds[Len(ds)])

\* i64::MAX, as digits
I64MaxDigits ==
    <<"9", "2", "2", "3", "3", "7", "2", "0", "3", "6", "8", "5", "4", "7", "7", "5", "8", "0", "7">>
RECURSIVE StripZeros(_)
StripZeros(ds) == IF Len(ds) > 1 /\ Head(ds) = "0" THEN StripZeros(Tail(ds)) ELSE ds
\* whether str::parse::<i64> of the digit string succeeds (no overflow)
FitsI64(ds) ==
    LET s == StripZeros(ds)
    IN \/ Len(s) < Len(I64MaxDigits)
       \/ Len(s) = Len(I64MaxDigits) /\ ~LexLess(I64MaxDigits, s)
\* the magnitude of i64::MIN, as digits
I64MinDigits ==
    <<"9", "2", "2", "3", "3", "7", "2", "0", "3", "6", "8", "5", "4", "7", "7", "5", "8", "0", "8">>
\* whether str::parse::<i64> of "-" followed by the digit string succeeds
FitsI64Neg(ds) ==
    LET s == StripZeros(ds)
    IN \/ Len(s) < Len(I64MinDigits)
       \/ Len(s) = Len(I64MinDigits) /\ ~LexLess(I64MinDigits, s)
\* An i64 of more than nine digits is kept as its sign and digits; the model
\* hands such values to no arithmetic.
BigInt(neg, ds) == [neg |-> neg, mag |-> ds]
\* the i64 with this sign and these digits
I64Val(neg, ds) ==
    IF Len(StripZeros(ds)) > 9 THEN BigInt(neg, StripZeros(ds))
    ELSE IF neg THEN -DigitsToNat(ds) ELSE DigitsToNat(ds)

----------------------------------------------------------------------------
(* Frames: src/resp/resp_frame.rs. A frame is [t |-> variant, v |-> payload]. *)

SimpleStringF(s) == [t |-> "SimpleString", v |-> s]
ErrorF(s) == [t |-> "Error", v |-> s]
IntegerF(n) == [t |-> "Integer", v |-> n]
BulkStringF(data) == [t |-> "BulkString", v |-> [some |-> TRUE, data |-> data]]
NullBulkString == [t |-> "BulkString", v |-> [some |-> FALSE, data |-> <<>>]]
ArrayF(items) == [t |-> "Array", v |-> [some |-> TRUE, items |-> items]]
NullArray == [t |-> "Array", v |-> [some |-> FALSE, items |-> <<>>]]
NullF == [t |-> "Null", v |-> <<>>]
BooleanF(b) == [t |-> "Boolean", v |-> b]
DoubleF(x) == [t |-> "Double", v |-> x]
MapF(m) == [t |-> "Map", v |-> m]
SetF(items) == [t |-> "Set", v |-> items]
NoFrame == [t |-> "None", v |-> <<>>]
\* no task calls the backend directly
Tasks == {1, 2}
NoCall == [pc |-> "idle", key |-> <<>>, member |-> {}, todo |-> {}, res |-> 0, counted |-> {}]
IdleTasks ==
    /\ sets = <<>> /\ sets0 = <<>> /\ guard = <<>>
    /\ task = [t \in Tasks |-> NoCall]
\* main has accepted nothing yet
IdleListener == listener = "accept" /\ conns = <<>> /\ acceptErrs = 0

\* no call of hgetall made by the second task
NoSnap == [state |-> "none", key |-> <<>>, map |-> <<>>, at |-> 0]

EmptyMap == [k \in {} |-> NoFrame]
\* BTreeMap::insert: a later value replaces an earlier one under the same key
MapInsert(m, key, value) ==
    [k \in DOMAIN m \cup {key} |-> IF k = key THEN value ELSE m[k]]

----------------------------------------------------------------------------
(* Encoders: impl RespEncode for each variant. *)

RECURSIVE RespFrame_encode(_), encode_all(_), encode_entries(_, _)

SimpleString_encode(s) == <<"+">> \o s \o CRLF
SimpleError_encode(s) == <<"-">> \o s \o CRLF
i64_encode(n) == <<":">> \o IntToBytes(n) \o CRLF
NULL_BULK_STRING == <<"$", "-", "1", CR, LF>>
BulkString_encode(b) ==
    IF ~b.some THEN NULL_BULK_STRING
    ELSE <<"$">> \o NatToBytes(Len(b.data)) \o CRLF \o b.data \o CRLF
NULL_ARRAY == <<"*", "-", "1", CR, LF>>
RespArray_encode(a) ==
    IF ~a.some THEN NULL_ARRAY
    ELSE <<"*">> \o NatToBytes(Len(a.items)) \o CRLF \o encode_all(a.items)
RespNull_encode == <<"_", CR, LF>>
bool_encode(b) == <<"#", IF b THEN "t" ELSE "f">> \o CRLF
RespMap_encode(m) ==
    <<"%">> \o NatToBytes(Cardinality(DOMAIN m)) \o CRLF
        \o encode_entries(m, SortedKeys(DOMAIN m))
RespSet_encode(items) ==
    <<"~">> \o NatToBytes(Len(items)) \o CRLF \o encode_all(items)

\* the `for frame in v { buf.extend_from_slice(&frame.encode()) }` loops
encode_all(items) ==
    IF items = <<>> THEN <<>>
    ELSE RespFrame_encode(Head(items)) \o encode_all(Tail(items))
\* the `for (key, value) in self.0` loop of RespMap::encode
encode_entries(m, keys) ==
    IF keys = <<>> THEN <<>>
    ELSE SimpleString_encode(Head(keys)) \o RespFrame_encode(m[Head(keys)])
             \o encode_entries(m, Tail(keys))

\* #[enum_dispatch(RespEncode)] on RespFrame
RespFrame_encode(f) ==
    CASE f.t = "SimpleString" -> SimpleString_encode(f.v)
      [] f.t = "Error" -> SimpleError_encode(f.v)
      [] f.t = "Integer" -> i64_encode(f.v)
      [] f.t = "BulkString" -> BulkString_encode(f.v)
      [] f.t = "Array" -> RespArray_encode(f.v)
      [] f.t = "Null" -> RespNull_encode
      [] f.t = "Boolean" -> bool_encode(f.v)
      [] f.t = "Map" -> RespMap_encode(f.v)
      [] f.t = "Set" -> RespSet_encode(f.v)

----------------------------------------------------------------------------
(* winnow results. A parser takes the remaining input and returns either  *)
(* POk(value, rest) or PErr(mode), mode being winnow's ErrMode.            *)

POk(v, rest) == [ok |-> TRUE, val |-> v, rest |-> rest]
PErr(mode) == [ok |-> FALSE, mode |-> mode]
Unit == <<>>

\* position of the first CRLF of s (1-based), 0 when there is none
IndexOfCRLF(s) ==
    LET I == {i \in 1..(Len(s) - 1) : s[i] = CR /\ s[i + 1] = LF}
    IN IF I = {} THEN 0 ELSE Min(I)

\* terminated(take_until(0.., CRLF), CRLF): the text before the first CRLF
take_line(input) ==
    LET i == IndexOfCRLF(input)
    IN IF i = 0 THEN PErr("Backtrack")
       ELSE POk(Take(input, i - 1), Drop(input, i + 1))

\* a literal tag
tag(lit, input) ==
    IF StartsWith(input, lit) THEN POk(lit, Drop(input, Len(lit))) ELSE PErr("Backtrack")

\* digit1: the longest non-empty run of digits
LeadingDigits(s) ==
    IF \E i \in 1..Len(s) : ~IsDigit(s[i])
    THEN Min({i \in 1..Len(s) : ~IsDigit(s[i])}) - 1
    ELSE Len(s)

\* respv2/parser.rs integer: [+|-] digit1 CRLF, the digits parsed as i64
integer(input) ==
    LET signed == input # <<>> /\ Head(input) \in {"+", "-"}
        sign == IF signed /\ Head(input) = "-" THEN -1 ELSE 1
        body == IF signed THEN Tail(input) ELSE input
        n == LeadingDigits(body)
        ds == Take(body, n)
        after == Drop(body, n)
    IN IF n = 0 \/ ~FitsI64(ds) \/ ~StartsWith(after, CRLF) THEN PErr("Backtrack")
       ELSE POk(I64Val(sign = -1, ds), Drop(after, CRLF_LEN))

----------------------------------------------------------------------------
(* The length scanner: src/respv2/parser_len.rs *)

RECURSIVE parse_frame_len(_), array_len_loop(_, _), map_len_loop(_, _)

\* the simple_parser of parse_frame_len: the rest of the line, value ()
simple_parser(input) ==
    LET r == take_line(input)
    IN IF r.ok THEN POk(Unit, r.rest) ELSE r

bulk_string_len(input) ==
    LET r == integer(input)
    IN IF ~r.ok THEN r
       ELSE IF r.val = -1 \/ r.val = 0 THEN POk(Unit, r.rest)
       ELSE IF r.val < -1 THEN PErr("Cut")
       ELSE LET len_with_crlf == r.val + 2
            IN IF Len(r.rest) < len_with_crlf THEN PErr("Incomplete")
               ELSE POk(Unit, Drop(r.rest, r.val + 2))

\* for _ in 0..len { parse_frame_len(input)?; }
array_len_loop(input, n) ==
    IF n = 0 THEN POk(Unit, input)
    ELSE LET r == parse_frame_len(input)
         IN IF ~r.ok THEN r ELSE array_len_loop(r.rest, n - 1)

array_len(input) ==
    LET r == integer(input)
    IN IF ~r.ok THEN r
       ELSE IF r.val = 0 \/ r.val = -1 THEN POk(Unit, r.rest)
       ELSE IF r.val < -1 THEN PErr("Cut")
       ELSE array_len_loop(r.rest, r.val)

\* for _ in 0..count { key line; parse_frame_len(input)?; }
map_len_loop(input, n) ==
    IF n = 0 THEN POk(Unit, input)
    ELSE LET k == take_line(input)
         IN IF ~k.ok THEN k
            ELSE LET r == parse_frame_len(k.rest)
                 IN IF ~r.ok THEN r ELSE map_len_loop(r.rest, n - 1)

map_len(input) ==
    LET r == integer(input)
    IN IF ~r.ok THEN r
       ELSE IF r.val <= 0 THEN PErr("Cut")
       ELSE map_len_loop(r.rest, r.val \div 2)

parse_frame_len(input) ==
    IF input = <<>> THEN PErr("Backtrack")
    ELSE LET b == Head(input)
             rest == Tail(input)
         IN CASE b \in {"+", "-", ":", "_", "#", ","} -> simple_parser(rest)
              [] b = "$" -> bulk_string_len(rest)
              [] b = "*" -> array_len(rest)
              [] b = "%" -> map_len(rest)
              [] OTHER -> PErr("Backtrack")

(* Results of the RespError-returning functions. *)
OkLen(n) == [kind |-> "Ok", len |-> n, frame |-> NoFrame]
OkFrame(f) == [kind |-> "Ok", len |-> 0, frame |-> f]
Failed(e) == [kind |-> e, len |-> 0, frame |-> NoFrame]
NoRet == [kind |-> "none", len |-> 0, frame |-> NoFrame]

parse_frame_length(input) ==
    LET match(r) == IF r.ok THEN OkLen(Len(input) - Len(r.rest)) ELSE Failed("NotCompleted")
    IN match(parse_frame_len(input))

----------------------------------------------------------------------------
(* The frame parser: src/respv2/parser.rs *)

RECURSIVE parse_frame(_), array_loop(_, _, _), map_loop(_, _, _)

\* alt((a, b)): b is tried only when a fails with ErrMode::Backtrack
alt2(ra, rb) == IF ra.ok THEN ra ELSE IF ra.mode = "Backtrack" THEN rb ELSE ra

\* terminated(take_until(0.., CRLF), CRLF) mapped through from_utf8_lossy, which
\* is the identity on the ASCII bytes of the model
parse_string(input) == take_line(input)

simple_string(input) ==
    LET r == parse_string(input) IN IF r.ok THEN POk(SimpleStringF(r.val), r.rest) ELSE r

error(input) ==
    LET r == parse_string(input) IN IF r.ok THEN POk(ErrorF(r.val), r.rest) ELSE r

null_bulk_string(input) ==
    LET r == tag(<<"-", "1", CR, LF>>, input)
    IN IF r.ok THEN POk(NullBulkString, r.rest) ELSE r

bulk_string(input) ==
    LET r == integer(input)
    IN IF ~r.ok THEN r
       ELSE IF r.val = 0 THEN POk(BulkStringF(<<>>), r.rest)
       ELSE IF r.val < 0 THEN PErr("Cut")
       ELSE IF Len(r.rest) < r.val \/ ~StartsWith(Drop(r.rest, r.val), CRLF)
            THEN PErr("Backtrack")
       ELSE POk(BulkStringF(Take(r.rest, r.val)), Drop(r.rest, r.val + CRLF_LEN))

null_array(input) ==
    LET r == tag(<<"-", "1", CR, LF>>, input)
    IN IF r.ok THEN POk(NullArray, r.rest) ELSE r

\* for _ in 0..len { arr.push(parse_frame(input)?); }
array_loop(input, n, arr) ==
    IF n = 0 THEN POk(ArrayF(arr), input)
    ELSE LET r == parse_frame(input)
         IN IF ~r.ok THEN r ELSE array_loop(r.rest, n - 1, Append(arr, r.val))

array(input) ==
    LET r == integer(input)
    IN IF ~r.ok THEN r
       ELSE IF r.val = 0 THEN POk(ArrayF(<<>>), r.rest)
       ELSE IF r.val < 0 THEN PErr("Cut")
       ELSE array_loop(r.rest, r.val, <<>>)

null(input) ==
    LET r == tag(CRLF, input) IN IF r.ok THEN POk(NullF, r.rest) ELSE r

boolean(input) ==
    LET r == alt2(tag(<<"t", CR, LF>>, input), tag(<<"f", CR, LF>>, input))
    IN IF r.ok THEN POk(BooleanF(r.val[1] = "t"), r.rest) ELSE r

\* A finite double m * 10^x, kept in normal form so that equal values are equal
\* records (0.0 = -0.0 under PartialEq).
RECURSIVE DoubleVal(_, _, _)
DoubleVal(neg, m, x) ==
    IF m = 0 THEN [neg |-> FALSE, m |-> 0, x |-> 0]
    ELSE IF m % 10 = 0 THEN DoubleVal(neg, m \div 10, x + 1)
    ELSE [neg |-> neg, m |-> m, x |-> x]

\* winnow::ascii::float on the bytes of the model (which hold no '.'):
\* [+|-] digit1 [(e|E) [+|-] digit1]; an exponent mark without digits is a Cut.
float(input) ==
    LET signed == input # <<>> /\ Head(input) \in {"+", "-"}
        neg == signed /\ Head(input) = "-"
        body == IF signed THEN Tail(input) ELSE input
        n == LeadingDigits(body)
        after == Drop(body, n)
        hasExp == after # <<>> /\ Head(after) \in {"e", "E"}
        e1 == IF hasExp THEN Tail(after) ELSE after
        esigned == hasExp /\ e1 # <<>> /\ Head(e1) \in {"+", "-"}
        eneg == esigned /\ Head(e1) = "-"
        e2 == IF esigned THEN Tail(e1) ELSE e1
        en == LeadingDigits(e2)
        ex == DigitsToNat(Take(e2, en))
    IN IF n = 0 THEN PErr("Backtrack")
       ELSE IF ~hasExp THEN POk(DoubleF(DoubleVal(neg, DigitsToNat(Take(body, n)), 0)), after)
       ELSE IF en = 0 THEN PErr("Cut")
       ELSE POk(DoubleF(DoubleVal(neg, DigitsToNat(Take(body, n)), IF eneg THEN -ex ELSE ex)),
                Drop(e2, en))

double(input) ==
    LET r == float(input)
    IN IF ~r.ok THEN r
       ELSE IF StartsWith(r.rest, CRLF) THEN POk(r.val, Drop(r.rest, CRLF_LEN))
       ELSE PErr("Backtrack")

\* for _ in 0..count { key; value; res.insert(key, value); }
map_loop(input, n, res) ==
    IF n = 0 THEN POk(MapF(res), input)
    ELSE LET p == tag(<<"+">>, input)
         IN IF ~p.ok THEN p
            ELSE LET k == parse_string(p.rest)
                 IN IF ~k.ok THEN k
                    ELSE LET r == parse_frame(k.rest)
                         IN IF ~r.ok THEN r
                            ELSE map_loop(r.rest, n - 1, MapInsert(res, k.val, r.val))

map(input) ==
    LET r == integer(input)
    IN IF ~r.ok THEN r
       ELSE IF r.val <= 0 THEN PErr("Cut")
       ELSE map_loop(r.rest, r.val \div 2, EmptyMap)

parse_frame(input) ==
    IF input = <<>> THEN PErr("Backtrack")
    ELSE LET b == Head(input)
             rest == Tail(input)
         IN CASE b = "+" -> simple_string(rest)
              [] b = "-" -> error(rest)
              [] b = ":" -> LET r == integer(rest)
                            IN IF r.ok THEN POk(IntegerF(r.val), r.rest) ELSE r
              [] b = "$" -> alt2(null_bulk_string(rest), bulk_string(rest))
              [] b = "*" -> alt2(null_array(rest), array(rest))
              [] b = "_" -> null(rest)
              [] b = "#" -> boolean(rest)
              [] b = "," -> double(rest)
              [] b = "%" -> map(rest)
              [] OTHER -> PErr("Backtrack")

----------------------------------------------------------------------------
(* impl RespDecodeV2 for RespFrame: src/respv2/mod.rs *)

RespDecodeV2_expect_length(b) == parse_frame_length(b)

\* decode(buf): the result and the buffer afterwards
RespDecodeV2_decode(b) ==
    LET map_err(r) == IF r.ok THEN OkFrame(r.val) ELSE Failed("InvalidFrame")
        split_to(l) ==
            IF l.kind # "Ok" THEN [ret |-> l, buf |-> b]
            ELSE [ret |-> map_err(parse_frame(Take(b, l.len))), buf |-> Drop(b, l.len)]
    IN split_to(RespDecodeV2_expect_length(b))

----------------------------------------------------------------------------
(* The hand-written bulk-string decoder: src/resp/bulk_string.rs, with the *)
(* helpers of src/resp/decode.rs it calls.                                 *)

\* find_crlf: 0-based index of the first CRLF at index >= 1, -1 for None
find_crlf(b) ==
    LET I == {i \in 2..(Len(b) - 1) : b[i] = CR /\ b[i + 1] = LF}
    IN IF I = {} THEN -1 ELSE Min(I) - 1

\* extract_simple_frame_data(buf, prefix): Ok(end) or an error
extract_simple_frame_data(b, prefix) ==
    IF Len(b) <= 3 THEN Failed("NotCompleted")
    ELSE IF ~StartsWith(b, prefix) THEN Failed("InvalidFrameType")
    ELSE IF find_crlf(b) >= 0 THEN OkLen(find_crlf(b))
    ELSE Failed("NotCompleted")

\* str::parse of a signed integer: [+|-] digits, nothing else
IsIntText(s) ==
    LET body == IF s # <<>> /\ Head(s) \in {"+", "-"} THEN Tail(s) ELSE s
    IN /\ body # <<>> /\ LeadingDigits(body) = Len(body)
       /\ IF Head(s) = "-" THEN FitsI64Neg(body) ELSE FitsI64(body)
IntTextVal(s) ==
    IF Head(s) = "-" THEN I64Val(TRUE, Tail(s))
    ELSE IF Head(s) = "+" THEN I64Val(FALSE, Tail(s))
    ELSE I64Val(FALSE, s)

\* parse_length_and_move(prefix, buf): the length line is split off the buffer
\* and parsed; the result and the buffer afterwards
parse_length_and_move(prefix, b) ==
    LET e == extract_simple_frame_data(b, prefix)
    IN IF e.kind # "Ok" THEN [ret |-> e, buf |-> b]
       ELSE LET text == SubSeq(b, Len(prefix) + 1, e.len)
                moved == Drop(b, e.len + CRLF_LEN)
            IN IF IsIntText(text) THEN [ret |-> OkLen(IntTextVal(text)), buf |-> moved]
               ELSE [ret |-> Failed("ParseIntError"), buf |-> moved]

\* <BulkString as RespDecode>::decode(buf): the result and the buffer afterwards
BulkString_decode(b) ==
    LET h == parse_length_and_move(<<"$">>, b)
        length == h.ret.len
    IN IF h.ret.kind # "Ok" THEN h
       ELSE IF length = -1 THEN [ret |-> OkFrame(NullBulkString), buf |-> h.buf]
       ELSE IF length < -1 THEN [ret |-> Failed("Panic"), buf |-> h.buf]
       ELSE IF Len(h.buf) < length + CRLF_LEN
            THEN [ret |-> Failed("NotCompleted"), buf |-> h.buf]
       ELSE IF ~StartsWith(Drop(h.buf, length), CRLF)
            THEN [ret |-> Failed("InvalidFrameType"), buf |-> Drop(h.buf, length)]
       ELSE [ret |-> OkFrame(BulkStringF(Take(h.buf, length))),
             buf |-> Drop(h.buf, length + CRLF_LEN)]

----------------------------------------------------------------------------
(* The hand-written decoder: impl RespDecode for each type, src/resp.  Every
   decode returns its result and the buffer as it leaves it.                 *)

NULL == <<"_", CR, LF>>
BOOL_LEN == Len(<<"#", "f", CR, LF>>)

\* extract_fixed_data(buf, expect, _): the buffer advanced past expect
extract_fixed_data(b, expect) ==
    IF Len(b) < Len(expect) THEN [ret |-> Failed("NotCompleted"), buf |-> b]
    ELSE IF ~StartsWith(b, expect) THEN [ret |-> Failed("InvalidFrameType"), buf |-> b]
    ELSE [ret |-> OkLen(0), buf |-> Drop(b, Len(expect))]

\* the content of a simple frame whose CR is at end
Content(b, end) == SubSeq(b, 2, end)

SimpleString_decode(b) ==
    LET e == extract_simple_frame_data(b, <<"+">>)
    IN IF e.kind # "Ok" THEN [ret |-> e, buf |-> b]
       ELSE [ret |-> OkFrame(SimpleStringF(Content(b, e.len))),
             buf |-> Drop(b, e.len + CRLF_LEN)]

SimpleError_decode(b) ==
    LET e == extract_simple_frame_data(b, <<"-">>)
    IN IF e.kind # "Ok" THEN [ret |-> e, buf |-> b]
       ELSE [ret |-> OkFrame(ErrorF(Content(b, e.len))), buf |-> Drop(b, e.len + CRLF_LEN)]

\* the line is split off the buffer before its content is parsed
i64_decode(b) ==
    LET e == extract_simple_frame_data(b, <<":">>)
    IN IF e.kind # "Ok" THEN [ret |-> e, buf |-> b]
       ELSE [ret |-> IF IsIntText(Content(b, e.len))
                     THEN OkFrame(IntegerF(IntTextVal(Content(b, e.len))))
                     ELSE Failed("ParseIntError"),
             buf |-> Drop(b, e.len + CRLF_LEN)]

\* str::parse::<f64> on the bytes of the model (which hold no '.', and no
\* letters of inf or nan): [+|-] digits [(e|E) [+|-] digits], nothing else
f64_decode(b) ==
    LET e == extract_simple_frame_data(b, <<",">>)
        p == float(Content(b, e.len))
    IN IF e.kind # "Ok" THEN [ret |-> e, buf |-> b]
       ELSE [ret |-> IF p.ok /\ p.rest = <<>> THEN OkFrame(p.val)
                     ELSE Failed("ParseFloatError"),
             buf |-> Drop(b, e.len + CRLF_LEN)]

bool_decode(b) ==
    LET e == extract_simple_frame_data(b, <<"#">>)
    IN IF e.kind # "Ok" THEN [ret |-> e, buf |-> b]
       ELSE [ret |-> IF Content(b, e.len) = <<"t">> THEN OkFrame(BooleanF(TRUE))
                     ELSE IF Content(b, e.len) = <<"f">> THEN OkFrame(BooleanF(FALSE))
                     ELSE Failed("InvalidFrameType"),
             buf |-> Drop(b, e.len + CRLF_LEN)]

RespNull_decode(b) ==
    LET e == extract_fixed_data(b, NULL)
    IN IF e.ret.kind # "Ok" THEN e ELSE [ret |-> OkFrame(NullF), buf |-> e.buf]

\* parse_length(prefix, buf): Ok with the index of the CR and the length, kept
\* in the fields len and frame of the result
parse_length(prefix, b) ==
    LET e == extract_simple_frame_data(b, prefix)
        text == SubSeq(b, Len(prefix) + 1, e.len)
    IN IF e.kind # "Ok" THEN e
       ELSE IF IsIntText(text) THEN [kind |-> "Ok", len |-> e.len, frame |-> IntTextVal(text)]
       ELSE Failed("ParseIntError")

RECURSIVE RespFrame_expect_length(_), cal_total_length_loop(_, _, _, _)

\* one element of cal_total_length: the lengths of the next n frames (for a
\* map, n key lines each followed by a frame) are added to total
cal_total_length_loop(data, n, total, prefix) ==
    LET k == extract_simple_frame_data(data, <<"+">>)
        klen == IF prefix = <<"%">> THEN k.len + CRLF_LEN ELSE 0
        add(v) ==
            IF v.kind # "Ok" THEN v
            ELSE IF Len(data) < klen + v.len THEN Failed("NotCompleted")
            ELSE cal_total_length_loop(Drop(data, klen + v.len), n - 1,
                                       total + klen + v.len, prefix)
    IN IF n <= 0 THEN OkLen(total)
       ELSE IF prefix = <<"%">> /\ k.kind # "Ok" THEN k
       ELSE add(RespFrame_expect_length(Drop(data, klen)))

\* cal_total_length(buf, end, len, prefix)
cal_total_length(b, end, len, prefix) ==
    cal_total_length_loop(Drop(b, end + CRLF_LEN), len, end + CRLF_LEN, prefix)

\* len as usize: a negative length wraps to a count no buffer can hold
as_usize(len, b) == IF len < 0 THEN Len(b) + 1 ELSE len

simple_expect_length(b, prefix) ==
    LET e == extract_simple_frame_data(b, prefix)
    IN IF e.kind # "Ok" THEN e ELSE OkLen(e.len + CRLF_LEN)

BulkString_expect_length(b) ==
    LET l == parse_length(<<"$">>, b)
    IN IF l.kind # "Ok" THEN l
       ELSE IF l.frame = -1 THEN OkLen(Len(NULL_BULK_STRING))
       ELSE OkLen(l.len + CRLF_LEN + l.frame + CRLF_LEN)

RespArray_expect_length(b) ==
    LET l == parse_length(<<"*">>, b)
    IN IF l.kind # "Ok" THEN l
       ELSE IF l.frame = -1 THEN OkLen(Len(NULL_ARRAY))
       ELSE cal_total_length(b, l.len, as_usize(l.frame, b), <<"*">>)

RespMap_expect_length(b) ==
    LET l == parse_length(<<"%">>, b)
    IN IF l.kind # "Ok" THEN l ELSE cal_total_length(b, l.len, as_usize(l.frame, b), <<"%">>)

RespSet_expect_length(b) ==
    LET l == parse_length(<<"~">>, b)
    IN IF l.kind # "Ok" THEN l ELSE cal_total_length(b, l.len, l.frame, <<"~">>)

\* <RespFrame as RespDecode>::expect_length
RespFrame_expect_length(b) ==
    IF b = <<>> THEN Failed("NotCompleted")
    ELSE CASE Head(b) = "*" -> RespArray_expect_length(b)
           [] Head(b) = "~" -> RespSet_expect_length(b)
           [] Head(b) = "%" -> RespMap_expect_length(b)
           [] Head(b) = "#" -> OkLen(BOOL_LEN)
           [] Head(b) \in {":", ",", "+", "-"} -> simple_expect_length(b, <<Head(b)>>)
           [] Head(b) = "_" -> OkLen(Len(NULL))
           [] Head(b) = "$" -> BulkString_expect_length(b)
           [] OTHER -> Failed("NotCompleted")

RECURSIVE RespFrame_decode(_), RespArray_loop(_, _, _), RespMap_loop(_, _, _),
          RespSet_loop(_, _, _)

\* for _ in 0..length { array.push(RespFrame::decode(buf)?); }
RespArray_loop(b, n, frames) ==
    LET push(item) ==
            IF item.ret.kind # "Ok" THEN item
            ELSE RespArray_loop(item.buf, n - 1, Append(frames, item.ret.frame))
    IN IF n <= 0 THEN [ret |-> OkFrame(ArrayF(frames)), buf |-> b]
       ELSE push(RespFrame_decode(b))

RespArray_decode(b) ==
    LET h == parse_length_and_move(<<"*">>, b)
        guarded(x) ==
            IF x.kind # "Ok" THEN [ret |-> x, buf |-> b]
            ELSE IF Len(b) < x.len THEN [ret |-> Failed("NotCompleted"), buf |-> b]
            ELSE IF h.ret.kind # "Ok" THEN h
            ELSE IF h.ret.len = -1 THEN [ret |-> OkFrame(NullArray), buf |-> h.buf]
            ELSE RespArray_loop(h.buf, h.ret.len, <<>>)
    IN guarded(RespArray_expect_length(b))

\* for _ in 0..length { key; value; map.insert(key.0, value); }
RespMap_loop(b, n, frames) ==
    LET key == SimpleString_decode(b)
        insert(value) ==
            IF value.ret.kind # "Ok" THEN value
            ELSE RespMap_loop(value.buf, n - 1,
                              MapInsert(frames, key.ret.frame.v, value.ret.frame))
    IN IF n <= 0 THEN [ret |-> OkFrame(MapF(frames)), buf |-> b]
       ELSE IF key.ret.kind # "Ok" THEN key
       ELSE insert(RespFrame_decode(key.buf))

RespMap_decode(b) ==
    LET h == parse_length_and_move(<<"%">>, b)
        guarded(x) ==
            IF x.kind # "Ok" THEN [ret |-> x, buf |-> b]
            ELSE IF Len(b) < x.len THEN [ret |-> Failed("NotCompleted"), buf |-> b]
            ELSE IF h.ret.kind # "Ok" THEN h
            ELSE RespMap_loop(h.buf, h.ret.len, EmptyMap)
    IN guarded(RespMap_expect_length(b))

\* for _ in 0..length { key; if data.contains(&key) { continue; } data.push(key); }
RespSet_loop(b, n, data) ==
    LET push(key) ==
            IF key.ret.kind # "Ok" THEN key
            ELSE IF \E i \in 1..Len(data) : data[i] = key.ret.frame
            THEN RespSet_loop(key.buf, n - 1, data)
            ELSE RespSet_loop(key.buf, n - 1, Append(data, key.ret.frame))
    IN IF n <= 0 THEN [ret |-> OkFrame(SetF(data)), buf |-> b]
       ELSE push(RespFrame_decode(b))

RespSet_decode(b) ==
    LET h == parse_length_and_move(<<"~">>, b)
        guarded(x) ==
            IF x.kind # "Ok" THEN [ret |-> x, buf |-> b]
            ELSE IF Len(b) < x.len THEN [ret |-> Failed("NotCompleted"), buf |-> b]
            ELSE IF h.ret.kind # "Ok" THEN h
            ELSE RespSet_loop(h.buf, h.ret.len, <<>>)
    IN guarded(RespSet_expect_length(b))

\* <RespFrame as RespDecode>::decode
RespFrame_decode(b) ==
    IF Len(b) < 3 THEN [ret |-> Failed("NotCompleted"), buf |-> b]
    ELSE CASE Head(b) = "+" -> SimpleString_decode(b)
           [] Head(b) = "-" -> SimpleError_decode(b)
           [] Head(b) = ":" -> i64_decode(b)
           [] Head(b) = "," -> f64_decode(b)
           [] Head(b) = "#" -> bool_decode(b)
           [] Head(b) = "_" -> RespNull_decode(b)
           [] Head(b) = "$" -> BulkString_decode(b)
           [] Head(b) = "*" -> RespArray_decode(b)
           [] Head(b) = "%" -> RespMap_decode(b)
           [] Head(b) = "~" -> RespSet_decode(b)
           [] OTHER -> [ret |-> Failed("InvalidFrameType"), buf |-> b]

----------------------------------------------------------------------------
(* Inputs of the codec harness. *)

MaxElems == 2      \* most elements of a generated array, set or map
MaxText == 1       \* longest generated text
MaxInt == 12       \* largest generated integer

TextBytes == {"a", "b"}
Texts == UNION {[1..n -> TextBytes] : n \in 0..MaxText}
IntVals == {-MaxInt, -1, 0, 1, MaxInt}

Leaves ==
    {SimpleStringF(s) : s \in Texts} \cup {ErrorF(s) : s \in Texts}
        \cup {IntegerF(n) : n \in IntVals}
        \cup {BulkStringF(s) : s \in Texts} \cup {NullBulkString, NullArray, NullF}
        \cup {BooleanF(b) : b \in BOOLEAN}

\* elements of the generated containers
Elems ==
    {SimpleStringF(<<"a">>), IntegerF(-1), BulkStringF(<<>>), BulkStringF(<<"a">>),
     NullF, BooleanF(TRUE)}
ElemSeqs == UNION {[1..n -> Elems] : n \in 0..MaxElems}
NoDup(q) == \A i, j \in 1..Len(q) : q[i] = q[j] => i = j
Keys == {<<"a">>, <<"b">>}
Maps == UNION {[K -> Elems] : K \in {K \in SUBSET Keys : Cardinality(K) <= MaxElems}}

Flat ==
    {ArrayF(q) : q \in ElemSeqs} \cup {SetF(q) : q \in {q \in ElemSeqs : NoDup(q)}}
        \cup {MapF(m) : m \in Maps}
\* containers of at most one element, nested one level down
Small ==
    {ArrayF(<<>>), SetF(<<>>), MapF(EmptyMap)}
        \cup {ArrayF(<<e>>) : e \in Elems} \cup {SetF(<<e>>) : e \in Elems}
        \cup {MapF([k \in {<<"a">>} |-> e]) : e \in Elems}
Nested ==
    {ArrayF(<<c>>) : c \in Small} \cup {SetF(<<c>>) : c \in Small}
        \cup {MapF([k \in {<<"b">>} |-> c]) : c \in Small}

Frames == Leaves \cup Flat \cup Nested

\* bytes that may follow a frame in the buffer
Tails == {<<>>, <<"+">>, <<"_", CR, LF>>, <<CR, LF>>}

\* buffers that are not the encoding of a frame
RawInputs ==
    {<<"&", "b", "a", "d", CR, LF>>, <<"x">>, <<CR, LF>>,
     <<"*", "-", "2", CR, LF>>, <<"$", "-", "5", CR, LF>>,
     <<"%", "0", CR, LF>>, <<"%", "-", "1", CR, LF>>,
     <<":", "a", CR, LF>>, <<"#", "x", CR, LF>>, <<"_", "x", CR, LF>>,
     <<"$", "1", CR, LF, "a", "b", "c">>, <<"$", "2", CR, LF, "a">>,
     <<"*", "1", CR, LF, "$", "2", CR, LF, "a">>,
     <<"%", "2", CR, LF, ":", "1", CR, LF, "+", "a", CR, LF>>}

\* the magnitudes one past i64::MAX and one past i64::MIN, as digits
I64_MAX_PLUS_1 ==
    <<"9", "2", "2", "3", "3", "7", "2", "0", "3", "6", "8", "5", "4", "7", "7", "5", "8", "0", "8">>
I64_MIN_MINUS_1 ==
    <<"9", "2", "2", "3", "3", "7", "2", "0", "3", "6", "8", "5", "4", "7", "7", "5", "8", "0", "9">>
\* Integer lines at the ends of the 64-bit range and one past them
I64Inputs ==
    {<<":">> \o I64MaxDigits \o CRLF, <<":", "-">> \o I64MinDigits \o CRLF,
     <<":">> \o I64_MAX_PLUS_1 \o CRLF, <<":", "-">> \o I64_MIN_MINUS_1 \o CRLF}

\* the wire form of a set written with the elements q, repeats included
SetWire(q) == <<"~">> \o NatToBytes(Len(q)) \o CRLF \o encode_all(q)
\* sets written with a repeated element
SetInputs == {SetWire(q) : q \in {q \in ElemSeqs : ~NoDup(q)}}

RECURSIVE encode_pairs(_)
\* the encodings of the pairs <<key, value>> of q, one after the other
encode_pairs(q) ==
    IF q = <<>> THEN <<>>
    ELSE RespFrame_encode(q[1][1]) \o RespFrame_encode(q[1][2]) \o encode_pairs(Tail(q))
\* the wire form of a map written with the pairs q, whatever frames its keys are
MapWire(q) == <<"%">> \o NatToBytes(Len(q)) \o CRLF \o encode_pairs(q)
KeyFrames == {SimpleStringF(<<"a">>), IntegerF(1), BulkStringF(<<"a">>)}
PairSeqs ==
    UNION {[1..n -> KeyFrames \X {SimpleStringF(<<"a">>), IntegerF(-1)}] : n \in 1..MaxElems}
\* complete maps in which some key is not a SimpleString
BadKeyMaps == {q \in PairSeqs : \E i \in 1..Len(q) : q[i][1].t # "SimpleString"}
BadKeyMapInputs == {MapWire(q) : q \in BadKeyMaps}

----------------------------------------------------------------------------
(* The codec harness: a buffer is seeded, then expect_length and decode are *)
(* called on it, and missing bytes are appended after a NotCompleted.       *)

IdleConn ==
    /\ plan = <<>> /\ sock = <<>> /\ script = <<>> /\ peerClosed = FALSE /\ rbuf = <<>>
    /\ readable = FALSE /\ pc = "closed" /\ cur = NoFrame /\ reply = NoFrame
    /\ out = <<>> /\ kv = EmptyMap /\ hkv = EmptyMap
    /\ reqs = <<>> /\ lastDecode = "none" /\ framingErrs = 0 /\ afterErr = 0

CodecInit ==
    /\ \/ \E f \in Frames, t \in Tails :
            /\ frame = f /\ enc = RespFrame_encode(f)
            /\ buf = RespFrame_encode(f) \o t /\ pending = <<>>
       \/ \E f \in Frames : \E k \in 0..(Len(RespFrame_encode(f)) - 1) :
            /\ frame = f /\ enc = RespFrame_encode(f)
            /\ buf = Take(RespFrame_encode(f), k)
            /\ pending = Drop(RespFrame_encode(f), k)
       \/ \E r \in RawInputs \cup I64Inputs \cup SetInputs \cup BadKeyMapInputs :
            /\ frame = NoFrame /\ enc = <<>> /\ buf = r /\ pending = <<>>
    /\ before = buf /\ call = "none" /\ ret = NoRet /\ fed = FALSE
    /\ IdleConn
    /\ snap = NoSnap
    /\ IdleTasks
    /\ IdleListener

\* RespFrame::expect_length(&buf)
CallExpectLength ==
    /\ call = "none"
    /\ call' = "expect_length"
    /\ before' = buf
    /\ ret' = RespDecodeV2_expect_length(buf)
    /\ UNCHANGED <<buf, pending, frame, enc, fed>>
    /\ UNCHANGED nvars
    /\ UNCHANGED svars
    /\ UNCHANGED xvars
    /\ UNCHANGED lvars

\* RespFrame::decode(&mut buf)
CallDecode ==
    /\ call \in {"none", "expect_length", "fed"}
    /\ call' = "decode"
    /\ before' = buf
    /\ ret' = RespDecodeV2_decode(buf).ret
    /\ buf' = RespDecodeV2_decode(buf).buf
    /\ UNCHANGED <<pending, frame, enc, fed>>
    /\ UNCHANGED nvars
    /\ UNCHANGED svars
    /\ UNCHANGED xvars
    /\ UNCHANGED lvars

\* BulkString::decode(&mut buf)
CallBulkDecode ==
    /\ call = "none"
    /\ call' = "bulk_decode"
    /\ before' = buf
    /\ ret' = BulkString_decode(buf).ret
    /\ buf' = BulkString_decode(buf).buf
    /\ UNCHANGED <<pending, frame, enc, fed>>
    /\ UNCHANGED nvars
    /\ UNCHANGED svars
    /\ UNCHANGED xvars
    /\ UNCHANGED lvars

\* the hand-written RespFrame::decode(&mut buf)
CallDecodeV1 ==
    /\ call \in {"none", "fed"}
    /\ call' = "decode_v1"
    /\ before' = buf
    /\ LET returns(d) == ret' = d.ret /\ buf' = d.buf
       IN returns(RespFrame_decode(buf))
    /\ UNCHANGED <<pending, frame, enc, fed>>
    /\ UNCHANGED nvars
    /\ UNCHANGED svars
    /\ UNCHANGED xvars
    /\ UNCHANGED lvars

\* the next read appends the rest of the input: buf.extend_from_slice(..)
Feed ==
    /\ call \in {"decode", "bulk_decode", "decode_v1"}
    /\ ret.kind = "NotCompleted"
    /\ pending # <<>>
    /\ buf' = buf \o pending
    /\ pending' = <<>>
    /\ call' = "fed"
    /\ fed' = TRUE
    /\ UNCHANGED <<before, frame, enc, ret>>
    /\ UNCHANGED nvars
    /\ UNCHANGED svars
    /\ UNCHANGED xvars
    /\ UNCHANGED lvars

CodecNext == CallExpectLength \/ CallDecode \/ CallBulkDecode \/ CallDecodeV1 \/ Feed

CodecSpec == CodecInit /\ [][CodecNext]_vars

----------------------------------------------------------------------------
(* Claims about the codec, stated over the harness. *)

\* C1: round trip. Decoding a buffer that holds exactly encode(f) returns f and
\* leaves the buffer empty.
C1_RoundTrip ==
    (call = "decode" /\ frame # NoFrame /\ before = enc)
        => (ret = OkFrame(frame) /\ buf = <<>>)

\* C2: length agreement, no over-read. When the buffer starts with the encoding of
\* a frame, a successful decode removes exactly expect_length(buffer) bytes, that
\* number is the length of the encoding, and the bytes after it stay as they were.
C2_LengthAgreement ==
    (call = "decode" /\ frame # NoFrame /\ StartsWith(before, enc) /\ ret.kind = "Ok")
        => /\ RespDecodeV2_expect_length(before) = OkLen(Len(before) - Len(buf))
           /\ Len(before) - Len(buf) = Len(enc)
           /\ buf = Drop(before, Len(enc))

\* C3: atomicity of progress. Whenever a decode returns NotCompleted the buffer is
\* what it was before the call.
C3_Atomicity ==
    (call \in {"decode", "bulk_decode"} /\ ret.kind = "NotCompleted") => buf = before

\* C4: incrementality. On a proper prefix b1 of a frame's encoding expect_length and
\* decode return NotCompleted, and once the rest is appended decode returns the frame.
C4_Incrementality ==
    /\ (call \in {"decode", "expect_length"} /\ frame # NoFrame /\ pending # <<>>
            /\ before \o pending = enc)
        => ret.kind = "NotCompleted"
    /\ (call = "decode" /\ frame # NoFrame /\ fed /\ before = enc)
        => ret = OkFrame(frame)

\* the first bytes of the RESP variants (spec 4.1)
Prefixes == {"+", "-", ":", "$", "*", "_", "#", ",", "%", "~"}
\* inputs no extension of which is a frame: an unknown first byte, an Array or
\* BulkString length below -1, a Map count that is not positive
Malformed(b) ==
    /\ b # <<>>
    /\ \/ Head(b) \notin Prefixes
       \/ /\ Head(b) \in {"*", "$"}
          /\ integer(Tail(b)).ok
          /\ integer(Tail(b)).val < -1
       \/ /\ Head(b) = "%"
          /\ integer(Tail(b)).ok
          /\ integer(Tail(b)).val <= 0

\* C5: the scanner tells malformed from incomplete. expect_length returns
\* InvalidFrame on a malformed input, and NotCompleted only on others.
C5_ScannerInvalid ==
    call = "expect_length" =>
        /\ Malformed(before) => ret.kind = "InvalidFrame"
        /\ ret.kind = "NotCompleted" => ~Malformed(before)

----------------------------------------------------------------------------
(* The backend: src/backend/mod.rs. kv maps a key to a frame, hkv a key to *)
(* a map from field to frame.                                              *)

Backend_get(m, key) == IF key \in DOMAIN m THEN m[key] ELSE NoFrame
\* set that keeps an existing value
Backend_set_keep(m, key, value) ==
    IF key \in DOMAIN m THEN m ELSE MapInsert(m, key, value)
Backend_set(m, key, value) == MapInsert(m, key, value)
Backend_hget(h, key, field) ==
    IF key \in DOMAIN h /\ field \in DOMAIN h[key] THEN h[key][field] ELSE NoFrame
\* hset that replaces the hash at key instead of inserting into it
Backend_hset_fresh(h, key, field, value) ==
    MapInsert(h, key, MapInsert(EmptyMap, field, value))
Backend_hset(h, key, field, value) ==
    MapInsert(h, key, MapInsert(IF key \in DOMAIN h THEN h[key] ELSE EmptyMap, field, value))
Backend_hgetall(h, key) == IF key \in DOMAIN h THEN h[key] ELSE EmptyMap
\* hmget that answers a missing field with Null
Backend_hmget_nulls(h, key, fields) ==
    LET stored == IF key \in DOMAIN h THEN h[key] ELSE EmptyMap
    IN [f \in {fields[i] : i \in 1..Len(fields)} |->
           IF f \in DOMAIN stored THEN stored[f] ELSE NullF]
Backend_hmget(h, key, fields) ==
    LET stored == IF key \in DOMAIN h THEN h[key] ELSE EmptyMap
        F == {fields[i] : i \in 1..Len(fields)} \cap DOMAIN stored
    IN [f \in F |-> stored[f]]

----------------------------------------------------------------------------
(* Commands: src/cmd. An error text is a sequence of tokens, each standing *)
(* for the bytes it spells (none of them a CR or an LF).                   *)

CmdOk(c) == [ok |-> TRUE, cmd |-> c]
CmdErr(kind, text) == [ok |-> FALSE, kind |-> kind, text |-> text]
\* a byte that makes a payload invalid UTF-8, and what from_utf8_lossy puts for it
XFF == "xFF"
REPLACEMENT_CHARACTER == "U+FFFD"
\* String::from_utf8(payload).is_ok()
from_utf8_ok(s) == \A i \in 1..Len(s) : s[i] # XFF
from_utf8_lossy(s) == [i \in 1..Len(s) |-> IF s[i] = XFF THEN REPLACEMENT_CHARACTER ELSE s[i]]
\* CommandError::Utf8Error(e) for the FromUtf8Error of a payload
Utf8Error == CmdErr("Utf8Error", <<"invalid utf-8 sequence">>)
\* Display of CommandError::Utf8Error
Utf8Error_to_string(e) == e.text

\* Display of CommandError
CommandError_to_string(e) ==
    IF e.kind = "InvalidCommand" THEN <<"Invalid command: ">> \o e.text
    ELSE IF e.kind = "Utf8Error" THEN Utf8Error_to_string(e)
    ELSE <<"Invalid argument: ">> \o e.text

Lower(b) ==
    CASE b = "E" -> "e" [] b = "G" -> "g" [] b = "S" -> "s" [] b = "T" -> "t"
      [] OTHER -> b
to_ascii_lowercase(s) == [i \in 1..Len(s) |-> Lower(s[i])]

get == <<"g", "e", "t">>
set == <<"s", "e", "t">>
hget == <<"h", "g", "e", "t">>
hset == <<"h", "s", "e", "t">>
hgetall == <<"h", "g", "e", "t", "a", "l", "l">>
hmget == <<"h", "m", "g", "e", "t">>
echo == <<"e", "c", "h", "o">>

RESP_OK == SimpleStringF(<<"O", "K">>)

IsBulk(f) == f.t = "BulkString"
IsSomeBulk(f) == f.t = "BulkString" /\ f.v.some

\* validate_command(value, cmd, n_arg) over the elements of the array:
\* CmdOk(Unit) or the error
validate_command(items, cmd, n_arg) ==
    IF Len(items) # n_arg + 1
    THEN CmdErr("InvalidArgument",
                <<"length of ">> \o cmd \o <<" command arguments must be ">> \o NatToBytes(n_arg))
    ELSE IF ~IsBulk(items[1])
    THEN CmdErr("InvalidCommand", <<"Command must have a BulkString as the first argument">>)
    ELSE IF to_ascii_lowercase(items[1].v.data) # cmd
    THEN CmdErr("InvalidArgument",
                <<"Invalid command: expected: ">> \o cmd \o <<", got: ">>
                    \o from_utf8_lossy(items[1].v.data))
    ELSE CmdOk(Unit)

\* extract_args(value, 1)
extract_args(items, start) == Drop(items, start)

Get_try_from(items) ==
    LET v == validate_command(items, get, 1)
        args == extract_args(items, 1)
    IN IF ~v.ok THEN v
       ELSE IF ~IsBulk(args[1]) THEN CmdErr("InvalidArgument", <<"Invalid key">>)
       ELSE IF ~from_utf8_ok(args[1].v.data)
            THEN CmdErr("InvalidArgument", <<"invalid utf8: ">> \o Utf8Error.text)
       ELSE CmdOk([c |-> "Get", key |-> args[1].v.data])

Set_try_from(items) ==
    LET v == validate_command(items, set, 2)
        args == extract_args(items, 1)
    IN IF ~v.ok THEN v
       ELSE IF ~(IsBulk(args[1]) /\ IsBulk(args[2]))
            THEN CmdErr("InvalidArgument", <<"Invalid key or value">>)
       ELSE IF ~from_utf8_ok(args[1].v.data) THEN Utf8Error
       ELSE CmdOk([c |-> "Set", key |-> args[1].v.data, value |-> args[2]])

HGet_try_from(items) ==
    LET v == validate_command(items, hget, 2)
        args == extract_args(items, 1)
    IN IF ~v.ok THEN v
       ELSE IF ~(IsSomeBulk(args[1]) /\ IsSomeBulk(args[2]))
            THEN CmdErr("InvalidArgument", <<"Invalid key or field">>)
       ELSE IF ~from_utf8_ok(args[1].v.data) \/ ~from_utf8_ok(args[2].v.data) THEN Utf8Error
       ELSE CmdOk([c |-> "HGet", key |-> args[1].v.data, field |-> args[2].v.data])

HSet_try_from(items) ==
    LET v == validate_command(items, hset, 3)
        args == extract_args(items, 1)
    IN IF ~v.ok THEN v
       ELSE IF ~(IsSomeBulk(args[1]) /\ IsSomeBulk(args[2]))
            THEN CmdErr("InvalidArgument", <<"Invalid key, field or value">>)
       ELSE IF ~from_utf8_ok(args[1].v.data) \/ ~from_utf8_ok(args[2].v.data) THEN Utf8Error
       ELSE CmdOk([c |-> "HSet", key |-> args[1].v.data, field |-> args[2].v.data,
                   value |-> args[3]])

HGetAll_try_from(items) ==
    LET v == validate_command(items, hgetall, 1)
        args == extract_args(items, 1)
    IN IF ~v.ok THEN v
       ELSE IF ~IsSomeBulk(args[1]) THEN CmdErr("InvalidArgument", <<"Invalid key">>)
       ELSE IF ~from_utf8_ok(args[1].v.data) THEN Utf8Error
       ELSE CmdOk([c |-> "HGetAll", key |-> args[1].v.data])

HMGet_try_from(items) ==
    LET v == validate_command(items, hmget, Len(items) - 1)
        args == extract_args(items, 1)
    IN IF Len(items) < 3
       THEN CmdErr("InvalidArgument", <<"wrong number of arguments for 'hmget' command">>)
       ELSE IF ~v.ok THEN v
       ELSE IF ~IsSomeBulk(args[1]) THEN CmdErr("InvalidArgument", <<"Invalid of lack of key">>)
       ELSE IF ~from_utf8_ok(args[1].v.data) THEN Utf8Error
       ELSE IF \E i \in 2..Len(args) : ~IsSomeBulk(args[i]) \/ ~from_utf8_ok(args[i].v.data)
            THEN LET bad == Min({i \in 2..Len(args) :
                                    ~IsSomeBulk(args[i]) \/ ~from_utf8_ok(args[i].v.data)})
                 IN IF ~IsSomeBulk(args[bad])
                    THEN CmdErr("InvalidArgument", <<"Invalid of lack of field">>)
                    ELSE Utf8Error
       ELSE CmdOk([c |-> "HMGet", key |-> args[1].v.data,
                   fields |-> [i \in 1..(Len(args) - 1) |-> args[i + 1].v.data]])

Echo_try_from(items) ==
    LET v == validate_command(items, echo, 1)
        args == extract_args(items, 1)
    IN IF ~v.ok THEN v
       ELSE IF ~IsSomeBulk(args[1])
            THEN CmdErr("InvalidArgument",
                        <<"Echo command requires a single bulk string argument">>)
       ELSE IF ~from_utf8_ok(args[1].v.data) THEN Utf8Error
       ELSE CmdOk([c |-> "Echo", message |-> args[1].v.data])

\* impl TryFrom<RespArray> for Command, over the elements of the array (a null
\* array derefs to no elements)
Command_try_from_array(items) ==
    IF items # <<>> /\ IsBulk(items[1])
    THEN LET c == items[1].v.data
         IN CASE c = get -> Get_try_from(items)
              [] c = set -> Set_try_from(items)
              [] c = hget -> HGet_try_from(items)
              [] c = hset -> HSet_try_from(items)
              [] c = hgetall -> HGetAll_try_from(items)
              [] c = hmget -> HMGet_try_from(items)
              [] c = echo -> Echo_try_from(items)
              [] OTHER -> CmdErr("InvalidCommand", <<"Invalid command: ">> \o from_utf8_lossy(c))
    ELSE CmdErr("InvalidCommand", <<"Command must have a BulkString as the first argument">>)

\* impl TryFrom<RespFrame> for Command
Command_try_from(f) ==
    IF f.t = "Array" THEN Command_try_from_array(f.v.items)
    ELSE CmdErr("InvalidCommand", <<"Command must be an Array">>)

\* an execute whose HGetAll looks the key up with entry(key).or_default()
execute_entry(cmd, m, h) ==
    CASE cmd.c = "Get" ->
            [frame |-> IF Backend_get(m, cmd.key) = NoFrame THEN NullF
                       ELSE Backend_get(m, cmd.key),
             kv |-> m, hkv |-> h]
      [] cmd.c = "Set" ->
            [frame |-> RESP_OK, kv |-> Backend_set(m, cmd.key, cmd.value), hkv |-> h]
      [] cmd.c = "HGet" ->
            [frame |-> IF Backend_hget(h, cmd.key, cmd.field) = NoFrame THEN NullF
                       ELSE Backend_hget(h, cmd.key, cmd.field),
             kv |-> m, hkv |-> h]
      [] cmd.c = "HSet" ->
            [frame |-> RESP_OK, kv |-> m,
             hkv |-> Backend_hset(h, cmd.key, cmd.field, cmd.value)]
      [] cmd.c = "HGetAll" ->
            [frame |-> MapF(Backend_hgetall(h, cmd.key)), kv |-> m,
             hkv |-> MapInsert(h, cmd.key, Backend_hgetall(h, cmd.key))]
      [] cmd.c = "HMGet" ->
            [frame |-> MapF(Backend_hmget(h, cmd.key, cmd.fields)), kv |-> m, hkv |-> h]
      [] cmd.c = "Echo" ->
            [frame |-> SimpleStringF(cmd.message), kv |-> m, hkv |-> h]
\* CommandExecutor::execute(cmd, &backend): the reply and the backend afterwards
execute(cmd, m, h) ==
    CASE cmd.c = "Get" ->
            [frame |-> IF Backend_get(m, cmd.key) = NoFrame THEN NullF
                       ELSE Backend_get(m, cmd.key),
             kv |-> m, hkv |-> h]
      [] cmd.c = "Set" ->
            [frame |-> RESP_OK, kv |-> Backend_set(m, cmd.key, cmd.value), hkv |-> h]
      [] cmd.c = "HGet" ->
            [frame |-> IF Backend_hget(h, cmd.key, cmd.field) = NoFrame THEN NullF
                       ELSE Backend_hget(h, cmd.key, cmd.field),
             kv |-> m, hkv |-> h]
      [] cmd.c = "HSet" ->
            [frame |-> RESP_OK, kv |-> m,
             hkv |-> Backend_hset(h, cmd.key, cmd.field, cmd.value)]
      [] cmd.c = "HGetAll" ->
            [frame |-> MapF(Backend_hgetall(h, cmd.key)), kv |-> m, hkv |-> h]
      [] cmd.c = "HMGet" ->
            [frame |-> MapF(Backend_hmget(h, cmd.key, cmd.fields)), kv |-> m, hkv |-> h]
      [] cmd.c = "Echo" ->
            [frame |-> SimpleStringF(cmd.message), kv |-> m, hkv |-> h]

----------------------------------------------------------------------------
(* The connection: src/network.rs *)

\* Display of RespError
RespError_to_string(kind) == <<kind>>

\* a codec that would hand NotCompleted on as an error frame
RespFrameCodec_decode_surfacing(src) ==
    LET match(res) ==
            IF res.ret.kind = "Ok"
            THEN [item |-> res.ret.frame, buf |-> res.buf, outcome |-> "frame"]
            ELSE [item |-> ErrorF(RespError_to_string(res.ret.kind)), buf |-> res.buf,
                  outcome |-> "error"]
    IN match(RespDecodeV2_decode(src))

\* <RespFrameCodec as Decoder>::decode(src): the item (NoFrame for Ok(None)), the
\* buffer afterwards and the outcome of RespFrame::decode
RespFrameCodec_decode(src) ==
    LET match(res) ==
            IF res.ret.kind = "NotCompleted"
            THEN [item |-> NoFrame, buf |-> res.buf, outcome |-> "NotCompleted"]
            ELSE IF res.ret.kind = "Ok"
            THEN [item |-> res.ret.frame, buf |-> res.buf, outcome |-> "frame"]
            ELSE [item |-> ErrorF(RespError_to_string(res.ret.kind)), buf |-> res.buf,
                  outcome |-> "error"]
    IN match(RespDecodeV2_decode(src))

\* handle_request(req): the response frame and the backend afterwards
handle_request(f, m, h) ==
    LET c == Command_try_from(f)
    IN IF c.ok THEN execute(c.cmd, m, h)
       ELSE [frame |-> ErrorF(CommandError_to_string(c)), kv |-> m, hkv |-> h]

\* a sink that would lose the reply
framed_send_lost(written, f) == written

\* a sink that would put the newest reply first
framed_send_lifo(written, f) == <<f>> \o written

\* framed.send(resp.frame): the bytes written so far, as frames
framed_send(written, f) == Append(written, f)

(* The client. A request is the frame the client means, the bytes it sends and *)
(* what the server should make of it.                                          *)
Req(f, class) == [frame |-> f, bytes |-> RespFrame_encode(f), class |-> class]
Raw(b, class) == [frame |-> NoFrame, bytes |-> b, class |-> class]
Cmd(words) == ArrayF([i \in 1..Len(words) |-> BulkStringF(words[i])])

ValidRequests ==
    {Req(Cmd(<<set, <<"a">>, <<"b">>>>), "valid"),
     Req(Cmd(<<get, <<"a">>>>), "valid"),
     Req(Cmd(<<echo, <<"a">>>>), "valid"),
     Req(Cmd(<<echo, <<>>>>), "valid")}
CommandErrors ==
    {Req(SimpleStringF(<<"a">>), "cmderr"),                      \* not an Array
     Req(ArrayF(<<IntegerF(1)>>), "cmderr"),                     \* first element no BulkString
     Req(Cmd(<<<<"x">>>>), "cmderr"),                            \* unknown verb
     Req(Cmd(<<<<>>>>), "cmderr"),                               \* unknown (empty) verb
     Req(Cmd(<<get>>), "cmderr"),                                \* wrong arity
     Req(ArrayF(<<BulkStringF(echo), IntegerF(1)>>), "cmderr"),  \* wrong argument type
     Req(ArrayF(<<BulkStringF(echo), MapF([k \in {<<"a">>} |-> IntegerF(1)])>>), "cmderr")}
FramingErrors == {Raw(<<":", "a", CR, LF>>, "framing")}
BadPrefix == {Raw(<<"&", "b", "a", "d", CR, LF>>, "badprefix")}
Partial == {Raw(<<"+", "O", "K", CR>>, "partial")}
Requests == ValidRequests \cup CommandErrors \cup FramingErrors \cup BadPrefix \cup Partial

MaxReqs == 2       \* most requests a client sends on the connection
MaxCut == 2        \* the client's writes are cut at most this far into the last request
Plans == UNION {[1..n -> Requests] : n \in 1..MaxReqs}

RECURSIVE Bytes(_)
Bytes(p) == IF p = <<>> THEN <<>> ELSE Head(p).bytes \o Bytes(Tail(p))

\* what the client will write: the plan's bytes, cut into two writes k bytes into
\* the last request (or written at once)
Chunks(p, k) ==
    LET all == Bytes(p)
        n == Len(all) - Len(p[Len(p)].bytes) + k
    IN IF n = 0 THEN <<all>> ELSE <<Take(all, n), Drop(all, n)>>
Scripts ==
    UNION {{[plan |-> p, script |-> Chunks(p, k)] : k \in 0..Min({MaxCut, Len(p[Len(p)].bytes) - 1})} :
           p \in Plans}

Init ==
    /\ \E s \in Scripts : plan = s.plan /\ script = s.script
    /\ sock = <<>> /\ peerClosed = FALSE
    /\ rbuf = <<>> /\ readable = FALSE /\ pc = "next"
    /\ cur = NoFrame /\ reply = NoFrame /\ out = <<>>
    /\ kv = EmptyMap /\ hkv = EmptyMap
    /\ reqs = <<>> /\ lastDecode = "none" /\ framingErrs = 0 /\ afterErr = 0
    /\ buf = <<>> /\ before = <<>> /\ pending = <<>> /\ frame = NoFrame /\ enc = <<>>
    /\ call = "none" /\ ret = NoRet /\ fed = FALSE
    /\ snap = NoSnap
    /\ IdleTasks
    /\ IdleListener

\* the client writes its next chunk
ClientSend ==
    /\ script # <<>> /\ ~peerClosed
    /\ sock' = sock \o Head(script)
    /\ script' = Tail(script)
    /\ UNCHANGED <<plan, peerClosed, rbuf, readable, pc, cur, reply, out, kv, hkv,
                   reqs, lastDecode, framingErrs, afterErr>>
    /\ UNCHANGED cvars
    /\ UNCHANGED svars
    /\ UNCHANGED xvars
    /\ UNCHANGED lvars

\* the client closes the connection once it has sent everything
ClientClose ==
    /\ script = <<>> /\ ~peerClosed
    /\ peerClosed' = TRUE
    /\ UNCHANGED <<plan, sock, script, rbuf, readable, pc, cur, reply, out, kv, hkv,
                   reqs, lastDecode, framingErrs, afterErr>>
    /\ UNCHANGED cvars
    /\ UNCHANGED svars
    /\ UNCHANGED xvars
    /\ UNCHANGED lvars

\* framed.next(), buffer readable: the codec decodes from the read buffer
NextDecode ==
    /\ pc = "next" /\ readable
    /\ LET poll(d) ==
               /\ rbuf' = d.buf
               /\ lastDecode' = d.outcome
               /\ IF d.outcome = "NotCompleted"
                  THEN /\ readable' = FALSE
                       /\ UNCHANGED <<pc, cur, reqs, framingErrs, afterErr>>
                  ELSE /\ cur' = d.item
                       /\ pc' = "handle"
                       /\ reqs' = Append(reqs, d.item)
                       /\ framingErrs' = IF d.outcome = "error" THEN framingErrs + 1
                                         ELSE framingErrs
                       /\ afterErr' = IF framingErrs > 0 THEN afterErr + 1 ELSE afterErr
                       /\ UNCHANGED readable
       IN poll(RespFrameCodec_decode(rbuf))
    /\ UNCHANGED <<plan, sock, script, peerClosed, reply, out, kv, hkv>>
    /\ UNCHANGED cvars
    /\ UNCHANGED svars
    /\ UNCHANGED xvars
    /\ UNCHANGED lvars

\* framed.next(), buffer not readable: the socket read returns the bytes received
NextRead ==
    /\ pc = "next" /\ ~readable /\ sock # <<>>
    /\ rbuf' = rbuf \o sock
    /\ sock' = <<>>
    /\ readable' = TRUE
    /\ UNCHANGED <<plan, script, peerClosed, pc, cur, reply, out, kv, hkv,
                   reqs, lastDecode, framingErrs, afterErr>>
    /\ UNCHANGED cvars
    /\ UNCHANGED svars
    /\ UNCHANGED xvars
    /\ UNCHANGED lvars

\* framed.next() at end of stream: the read returns 0 bytes, decode_eof finds no
\* frame in the buffer (the codec is deterministic and has just returned None on
\* it), next() yields None or Some(Err(..)) and handle_stream returns
NextEof ==
    /\ pc = "next" /\ ~readable /\ sock = <<>> /\ peerClosed
    /\ pc' = "closed"
    /\ UNCHANGED <<plan, sock, script, peerClosed, rbuf, readable, cur, reply, out, kv,
                   hkv, reqs, lastDecode, framingErrs, afterErr>>
    /\ UNCHANGED cvars
    /\ UNCHANGED svars
    /\ UNCHANGED xvars
    /\ UNCHANGED lvars

\* let resp = handle_request(req).await?
Handle ==
    /\ pc = "handle"
    /\ LET r == handle_request(cur, kv, hkv)
       IN /\ reply' = r.frame
          /\ kv' = r.kv
          /\ hkv' = r.hkv
    /\ pc' = "send"
    /\ UNCHANGED <<plan, sock, script, peerClosed, rbuf, readable, cur, out,
                   reqs, lastDecode, framingErrs, afterErr>>
    /\ UNCHANGED cvars
    /\ UNCHANGED svars
    /\ UNCHANGED xvars
    /\ UNCHANGED lvars

\* framed.send(resp.frame).await?
Send ==
    /\ pc = "send"
    /\ out' = framed_send(out, reply)
    /\ pc' = "next"
    /\ UNCHANGED <<plan, sock, script, peerClosed, rbuf, readable, cur, reply, kv, hkv,
                   reqs, lastDecode, framingErrs, afterErr>>
    /\ UNCHANGED cvars
    /\ UNCHANGED svars
    /\ UNCHANGED xvars
    /\ UNCHANGED lvars

Next == ClientSend \/ ClientClose \/ NextDecode \/ NextRead \/ NextEof \/ Handle \/ Send

Spec == Init /\ [][Next]_vars

----------------------------------------------------------------------------
(* Claims about the connection. *)

\* everything the client sent has been read and offered to the codec, and the
\* loop is waiting for more (or has returned)
Drained ==
    /\ script = <<>> /\ sock = <<>> /\ ~readable
    /\ pc \in {"next", "closed"} /\ lastDecode # "none"

\* the replies handle_request gives to the frames fs, one after the other
RECURSIVE Replies(_, _, _)
Replies(fs, m, h) ==
    IF fs = <<>> THEN <<>>
    ELSE LET then(r) == <<r.frame>> \o Replies(Tail(fs), r.kv, r.hkv)
         IN then(handle_request(Head(fs), m, h))

\* the backend after handle_request has served the frames fs
RECURSIVE BackendAfter(_, _, _)
BackendAfter(fs, m, h) ==
    IF fs = <<>> THEN [kv |-> m, hkv |-> h]
    ELSE LET then(r) == BackendAfter(Tail(fs), r.kv, r.hkv)
         IN then(handle_request(Head(fs), m, h))

PlanFrames == [i \in 1..Len(plan) |-> plan[i].frame]

\* C6: when the bytes received begin with a byte that is no RESP type prefix
\* (`&bad\r\n`), the loop writes a SimpleError frame to the client rather than
\* wait for more input: once the server has taken in all the client sent, an
\* error frame has been written.
C6_BadPrefixAnswered ==
    (Drained /\ plan[1].class = "badprefix") => (out # <<>> /\ out[1].t = "Error")

\* C7: after a framing error (decode fails with InvalidFrame) the connection is
\* closed: nothing received after the offending frame is decoded, executed or
\* answered.
C7_ClosedAfterFramingError ==
    framingErrs > 0 => (afterErr = 0 /\ Len(out) <= Len(reqs) - afterErr)

\* C8: a frame that is no command (not an Array, first element no BulkString,
\* unknown verb, wrong arity, wrong argument type) is answered with exactly one
\* SimpleError, leaves the backend unchanged and the connection open, and a valid
\* command sent after it is executed and answered normally: once the server has
\* taken in a command error followed by a valid command, it has written one error
\* and the valid command's own reply, and the backend is what the valid command
\* alone makes it.
C8_CommandErrorsInBand ==
    (Drained /\ Len(plan) = 2 /\ plan[1].class = "cmderr" /\ plan[2].class = "valid") =>
        /\ Len(out) = 2
        /\ out[1].t = "Error"
        /\ out[2] = handle_request(plan[2].frame, EmptyMap, EmptyMap).frame
        /\ [kv |-> kv, hkv |-> hkv] = BackendAfter(<<plan[2].frame>>, EmptyMap, EmptyMap)

C11_Pipelining ==
    (/\ Drained
     /\ \A i \in 1..(Len(plan) - 1) : plan[i].class = "valid"
     /\ plan[Len(plan)].class \in {"valid", "partial"})
    => IF plan[Len(plan)].class = "partial"
       THEN Len(out) = Len(plan) - 1 /\ rbuf = plan[Len(plan)].bytes
       ELSE Len(out) = Len(plan) /\ rbuf = <<>>

\* C12: backpressure. Request i+1 is not decoded or executed before reply i has
\* been written: a request that is being handled or whose reply is being written
\* is the only one without a reply, and the backend then holds the effects of the
\* requests up to it and of none after it.
C12_Backpressure ==
    /\ (pc \in {"handle", "send"}) => Len(reqs) = Len(out) + 1
    /\ (pc = "handle") =>
          [kv |-> kv, hkv |-> hkv]
              = BackendAfter(Take(reqs, Len(reqs) - 1), EmptyMap, EmptyMap)
    /\ (pc = "send") =>
          [kv |-> kv, hkv |-> hkv] = BackendAfter(reqs, EmptyMap, EmptyMap)

C12_Witness ==
    /\ pc = "send" /\ Len(out) = 1 /\ Len(reqs) = 2 /\ rbuf = <<>>
    /\ Len(plan) = 2 /\ reqs = PlanFrames
    /\ kv # EmptyMap /\ reply = BulkStringF(<<"b">>)

----------------------------------------------------------------------------
(* Commands against the shared backend.  handle_request is applied to request
   frames directly, one request at a time, as the connection loop does once a
   frame is decoded; a second task holds the result of a backend.hgetall call
   while the first goes on executing requests.                               *)

MaxCmds == 3

\* the request frames the clients send, all with the arguments their verb takes
A == <<"a">>
StoreCalls ==
    { Cmd(<<set, A, <<"b">>>>), Cmd(<<set, A, <<"c">>>>), Cmd(<<get, A>>),
      Cmd(<<hset, A, <<"f">>, <<"b">>>>), Cmd(<<hset, A, <<"f">>, <<"c">>>>),
      Cmd(<<hset, A, <<"g">>, <<"b">>>>), Cmd(<<hget, A, <<"f">>>>),
      Cmd(<<hgetall, A>>), Cmd(<<hmget, A, <<"f">>, <<"g">>>>),
      Cmd(<<echo, A>>) }
\* the same verb in other spellings
CasedCalls == { Cmd(<<<<"G", "E", "T">>, A>>), Cmd(<<<<"G", "e", "t">>, A>>) }
sadd == <<"s", "a", "d", "d">>
sismember == <<"s", "i", "s", "m", "e", "m", "b", "e", "r">>
SetCalls ==
    { Cmd(<<sadd, A, <<"x">>, <<"x">>, <<"y">>>>), Cmd(<<sismember, A, <<"x">>>>) }
UnknownCalls == { Cmd(<<<<"x">>, A>>) }
Calls == StoreCalls \cup CasedCalls \cup SetCalls \cup UnknownCalls

IdleCodec ==
    /\ buf = <<>> /\ before = <<>> /\ pending = <<>> /\ frame = NoFrame /\ enc = <<>>
    /\ call = "none" /\ ret = NoRet /\ fed = FALSE

CmdInit == IdleCodec /\ IdleConn /\ snap = NoSnap /\ IdleTasks /\ IdleListener

\* one request: the frame is converted, executed and its reply sent
Run(f) ==
    LET done(r) ==
            /\ cur' = f
            /\ reply' = r.frame
            /\ kv' = r.kv
            /\ hkv' = r.hkv
            /\ reqs' = Append(reqs, f)
            /\ out' = framed_send(out, r.frame)
    IN done(handle_request(f, kv, hkv))

Exec ==
    /\ Len(reqs) < MaxCmds
    /\ \E f \in Calls : Run(f)
    /\ UNCHANGED <<plan, sock, script, peerClosed, rbuf, readable, pc,
                   lastDecode, framingErrs, afterErr>>
    /\ UNCHANGED cvars
    /\ UNCHANGED svars
    /\ UNCHANGED xvars
    /\ UNCHANGED lvars

\* the second task: let res = backend.hgetall(&self.key)
HGetAllCall ==
    /\ snap.state = "none"
    /\ snap' = [state |-> "held", key |-> A, map |-> Backend_hgetall(hkv, A),
                at |-> Len(reqs)]
    /\ UNCHANGED nvars
    /\ UNCHANGED cvars
    /\ UNCHANGED xvars
    /\ UNCHANGED lvars

\* the reply built from the hash as it is now, as if res were a view of it
HGetAllReply_view ==
    /\ snap.state = "held"
    /\ snap' = [snap EXCEPT !.state = "replied", !.map = Backend_hgetall(hkv, snap.key)]
    /\ UNCHANGED nvars
    /\ UNCHANGED cvars
    /\ UNCHANGED xvars
    /\ UNCHANGED lvars

\* the second task: the loop over res that builds the reply Map
HGetAllReply ==
    /\ snap.state = "held"
    /\ snap' = [snap EXCEPT !.state = "replied", !.map = [k \in DOMAIN snap.map |-> snap.map[k]]]
    /\ UNCHANGED nvars
    /\ UNCHANGED cvars
    /\ UNCHANGED xvars
    /\ UNCHANGED lvars

CmdNext == Exec \/ HGetAllCall \/ HGetAllReply

CmdSpec == CmdInit /\ [][CmdNext]_vars

----------------------------------------------------------------------------
(* Claims about commands. *)

\* an Array request whose elements are all non-null BulkStrings
IsCall(f) ==
    /\ f.t = "Array" /\ f.v.some /\ f.v.items # <<>>
    /\ \A i \in 1..Len(f.v.items) : IsSomeBulk(f.v.items[i])
Verb(f) == f.v.items[1].v.data
Arg(f, i) == f.v.items[i + 1].v.data
NArgs(f) == Len(f.v.items) - 1
\* the same request with its verb spelled in lowercase
LowerSpelling(f) ==
    ArrayF([i \in 1..Len(f.v.items) |->
               IF i = 1 THEN BulkStringF(to_ascii_lowercase(Verb(f))) ELSE f.v.items[i]])

\* C13: every handled request whose lowercase spelling converts to a Command
\* converts as well, and to the same Command, whatever the case of its verb
C13_VerbsCaseInsensitive ==
    \A i \in 1..Len(reqs) :
        (IsCall(reqs[i]) /\ Command_try_from(LowerSpelling(reqs[i])).ok)
        => Command_try_from(reqs[i]) = Command_try_from(LowerSpelling(reqs[i]))

NineVerbs == {get, set, hget, hset, hgetall, hmget, echo, sadd, sismember}
VariantOf(verb) ==
    CASE verb = get -> "Get" [] verb = set -> "Set" [] verb = hget -> "HGet"
      [] verb = hset -> "HSet" [] verb = hgetall -> "HGetAll" [] verb = hmget -> "HMGet"
      [] verb = echo -> "Echo" [] verb = sadd -> "SAdd" [] verb = sismember -> "SIsMember"

\* C14: a handled request naming one of the nine verbs, with the arguments the
\* verb takes, converts to the Command variant of that verb; a request whose
\* first BulkString names no verb in any spelling yields InvalidCommand
C14_DispatchComplete ==
    \A i \in 1..Len(reqs) :
        LET f == reqs[i]
            c == Command_try_from(f)
        IN IsCall(f) =>
              /\ (Verb(f) \in NineVerbs /\ f \in StoreCalls \cup SetCalls)
                    => (c.ok /\ c.cmd.c = VariantOf(Verb(f)))
              /\ (to_ascii_lowercase(Verb(f)) \notin NineVerbs)
                    => (~c.ok /\ c.kind = "InvalidCommand")

IsVerbCall(f, verb, n) == IsCall(f) /\ Verb(f) = verb /\ NArgs(f) = n
ArgSet(f, from) == {Arg(f, j) : j \in from..NArgs(f)}

\* the members the SADD requests among fs have added to the set at key
RECURSIVE MembersAfter(_, _)
MembersAfter(fs, key) ==
    IF fs = <<>> THEN {}
    ELSE LET f == fs[Len(fs)]
             rest == MembersAfter(Take(fs, Len(fs) - 1), key)
         IN IF IsCall(f) /\ Verb(f) = sadd /\ NArgs(f) >= 2 /\ Arg(f, 1) = key
            THEN rest \cup ArgSet(f, 2) ELSE rest

\* C15: a SADD request is answered Integer(c), c the number of distinct members
\* it names that no earlier SADD on its key had added (so 0 when repeated)
C15_SAddCountsNew ==
    \A i \in 1..Len(reqs) :
        (IsCall(reqs[i]) /\ Verb(reqs[i]) = sadd /\ NArgs(reqs[i]) >= 2)
        => out[i] = IntegerF(Cardinality(
                       ArgSet(reqs[i], 2)
                           \ MembersAfter(Take(reqs, i - 1), Arg(reqs[i], 1))))

\* C16: a SISMEMBER request is answered Integer(1) if an earlier SADD on its key
\* added the member and Integer(0) otherwise
C16_SIsMember ==
    \A i \in 1..Len(reqs) :
        IsVerbCall(reqs[i], sismember, 2)
        => out[i] = IntegerF(IF Arg(reqs[i], 2)
                                   \in MembersAfter(Take(reqs, i - 1), Arg(reqs[i], 1))
                             THEN 1 ELSE 0)

\* the value of the last SET on key among fs, NoFrame if there is none
RECURSIVE LastSet(_, _)
LastSet(fs, key) ==
    IF fs = <<>> THEN NoFrame
    ELSE LET f == fs[Len(fs)]
         IN IF IsVerbCall(f, set, 2) /\ Arg(f, 1) = key THEN f.v.items[3]
            ELSE LastSet(Take(fs, Len(fs) - 1), key)

\* C17: GET k is answered with the frame of the most recent SET on k, Null if
\* there was none, and every SET is answered SimpleString OK
C17_GetLastSet ==
    \A i \in 1..Len(reqs) :
        /\ IsVerbCall(reqs[i], get, 1) =>
              out[i] = IF LastSet(Take(reqs, i - 1), Arg(reqs[i], 1)) = NoFrame
                       THEN NullF
                       ELSE LastSet(Take(reqs, i - 1), Arg(reqs[i], 1))
        /\ IsVerbCall(reqs[i], set, 2) => out[i] = SimpleStringF(<<"O", "K">>)

\* a GET answered with the second of two values SET on its key
C17_Witness ==
    /\ reqs = <<Cmd(<<set, A, <<"b">>>>), Cmd(<<set, A, <<"c">>>>), Cmd(<<get, A>>)>>
    /\ out = <<SimpleStringF(<<"O", "K">>), SimpleStringF(<<"O", "K">>),
               BulkStringF(<<"c">>)>>
    /\ kv[A] = BulkStringF(<<"c">>)

\* the fields the HSET requests among fs have set at key, with their last values
RECURSIVE HashAfter(_, _)
HashAfter(fs, key) ==
    IF fs = <<>> THEN EmptyMap
    ELSE LET f == fs[Len(fs)]
             rest == HashAfter(Take(fs, Len(fs) - 1), key)
         IN IF IsVerbCall(f, hset, 3) /\ Arg(f, 1) = key
            THEN [x \in DOMAIN rest \cup {Arg(f, 2)} |->
                     IF x = Arg(f, 2) THEN f.v.items[4] ELSE rest[x]]
            ELSE rest

\* C18: HGET k f is answered with the value of the most recent HSET on (k, f),
\* Null if there was none; HGETALL k with the Map of exactly the fields HSET on
\* k, each with its latest value (an empty Map when none was)
C18_HashCommands ==
    \A i \in 1..Len(reqs) :
        LET f == reqs[i]
            before_i(key) == HashAfter(Take(reqs, i - 1), key)
        IN /\ IsVerbCall(f, hget, 2) =>
                 out[i] = IF Arg(f, 2) \in DOMAIN before_i(Arg(f, 1))
                          THEN before_i(Arg(f, 1))[Arg(f, 2)] ELSE NullF
           /\ IsVerbCall(f, hgetall, 1) => out[i] = MapF(before_i(Arg(f, 1)))

\* HGETALL answered with two fields, one of them set twice
C18_Witness ==
    /\ Len(reqs) = 3
    /\ reqs[1] = Cmd(<<hset, A, <<"f">>, <<"b">>>>)
    /\ reqs[2] \in {Cmd(<<hset, A, <<"g">>, <<"b">>>>), Cmd(<<hset, A, <<"f">>, <<"c">>>>)}
    /\ reqs[3] = Cmd(<<hgetall, A>>)
    /\ out[3].t = "Map" /\ out[3].v = hkv[A]
    /\ \/ DOMAIN out[3].v = {<<"f">>, <<"g">>}
       \/ out[3].v[<<"f">>] = BulkStringF(<<"c">>)

\* C19: HMGET key f1..fn is answered with a Map whose keys are the requested
\* fields that are stored in the hash at key, each with its stored value
C19_HMGetIntersection ==
    \A i \in 1..Len(reqs) :
        LET f == reqs[i]
            stored == HashAfter(Take(reqs, i - 1), Arg(f, 1))
        IN (IsCall(f) /\ Verb(f) = hmget /\ NArgs(f) >= 2) =>
              /\ out[i].t = "Map"
              /\ DOMAIN out[i].v = ArgSet(f, 2) \cap DOMAIN stored
              /\ \A x \in DOMAIN out[i].v : out[i].v[x] = stored[x]

\* HMGET of a stored and of a missing field
C19_Witness ==
    /\ Len(reqs) >= 2
    /\ reqs[1] = Cmd(<<hset, A, <<"f">>, <<"b">>>>)
    /\ reqs[2] = Cmd(<<hmget, A, <<"f">>, <<"g">>>>)
    /\ out[2] = MapF([x \in {<<"f">>} |-> BulkStringF(<<"b">>)])

\* C20: the mapping a call of hgetall returned is the hash at its key as it was
\* between two requests, those executed before the call and those after it,
\* and stays that mapping whatever HSETs are executed afterwards
C20_HGetAllSnapshot ==
    snap.state # "none" => snap.map = HashAfter(Take(reqs, snap.at), snap.key)

\* the reply is built from the returned mapping after an HSET changed the hash
C20_Witness ==
    /\ snap.state = "replied"
    /\ snap.map # EmptyMap
    /\ snap.at < Len(reqs)
    /\ Backend_hgetall(hkv, snap.key) # snap.map

----------------------------------------------------------------------------
(* Backend::sadd called by two tasks at once.  self.set.entry(key) locks the
   entry of the key exclusively and or_default() returns a reference that
   keeps it locked until sadd returns; each DashSet::insert is one step.     *)

MaxMembers == 3
MemberNames == <<<<"x">>, <<"y">>, <<"z">>, <<"w">>>>
Members == {MemberNames[i] : i \in 1..MaxMembers}
SKeys == {<<"a">>, <<"b">>}

\* DashMap::entry(key) can proceed: nobody holds the entry of key
DashMap_entry_unlocked(g, key) == TRUE
DashMap_entry_free(g, key) == g[key] = 0

SAddInit ==
    /\ IdleCodec /\ IdleConn /\ snap = NoSnap
    /\ sets0 \in {[k \in {} |-> {}], [k \in {<<"a">>} |-> {<<"x">>}]}
    /\ sets = sets0
    /\ guard = [k \in SKeys |-> 0]
    /\ task = [t \in Tasks |-> NoCall]
    /\ IdleListener

\* a task calls sadd(key, member): let mut res = 0
SAddCall(t) ==
    /\ task[t].pc = "idle"
    /\ \E key \in SKeys, member \in SUBSET Members \ {{}} :
          task' = [task EXCEPT ![t] = [pc |-> "entry", key |-> key, member |-> member,
                                       todo |-> member, res |-> 0, counted |-> {}]]
    /\ UNCHANGED <<sets, guard, sets0>>
    /\ UNCHANGED lvars
    /\ UNCHANGED <<cvars, nvars, svars>>

\* let set = self.set.entry(key).or_default()
SAddEntry(t) ==
    /\ task[t].pc = "entry"
    /\ DashMap_entry_free(guard, task[t].key)
    /\ guard' = [guard EXCEPT ![task[t].key] = t]
    /\ sets' = IF task[t].key \in DOMAIN sets THEN sets
               ELSE [k \in DOMAIN sets \cup {task[t].key} |->
                        IF k = task[t].key THEN {} ELSE sets[k]]
    /\ task' = [task EXCEPT ![t].pc = "loop"]
    /\ UNCHANGED sets0
    /\ UNCHANGED lvars
    /\ UNCHANGED <<cvars, nvars, svars>>

\* one turn of: for k in member { if set.insert(k) { res += 1 } }
SAddInsert(t) ==
    /\ task[t].pc = "loop"
    /\ \E k \in task[t].todo :
          LET new == k \notin sets[task[t].key]
          IN /\ sets' = [sets EXCEPT ![task[t].key] = @ \cup {k}]
             /\ task' = [task EXCEPT ![t].todo = @ \ {k},
                                     ![t].res = IF new THEN @ + 1 ELSE @,
                                     ![t].counted = IF new THEN @ \cup {k} ELSE @]
    /\ UNCHANGED <<guard, sets0>>
    /\ UNCHANGED lvars
    /\ UNCHANGED <<cvars, nvars, svars>>

\* the loop is over: res is returned and the entry released
SAddReturn(t) ==
    /\ task[t].pc = "loop"
    /\ task[t].todo = {}
    /\ guard' = [guard EXCEPT ![task[t].key] = IF @ = t THEN 0 ELSE @]
    /\ task' = [task EXCEPT ![t].pc = "done"]
    /\ UNCHANGED <<sets, sets0>>
    /\ UNCHANGED lvars
    /\ UNCHANGED <<cvars, nvars, svars>>

SAddNext ==
    \E t \in Tasks : SAddCall(t) \/ SAddEntry(t) \/ SAddInsert(t) \/ SAddReturn(t)

SAddSpec == SAddInit /\ [][SAddNext]_vars

MembersBefore(key) == IF key \in DOMAIN sets0 THEN sets0[key] ELSE {}

\* C21: two sadd calls on one key never run their member loops at the same
\* time, no member is counted by both, and once both returned their counts add
\* up to the number of members absent before and present after
C21_SAddAtomicPerKey ==
    \A t, u \in Tasks :
        (t # u /\ task[t].pc # "idle" /\ task[u].pc # "idle" /\ task[t].key = task[u].key)
        => /\ ~(task[t].pc = "loop" /\ task[u].pc = "loop")
           /\ task[t].counted \cap task[u].counted = {}
           /\ task[t].res = Cardinality(task[t].counted)
           /\ (task[t].pc = "done" /\ task[u].pc = "done") =>
                 /\ task[t].res + task[u].res
                      = Cardinality((task[t].member \cup task[u].member)
                                        \ MembersBefore(task[t].key))
                 /\ (task[t].member \cup task[u].member) \subseteq sets[task[t].key]

\* both calls returned, on one key, with a member in common, and each counted
\* some member while one member was in the set before
C21_Witness ==
    /\ task[1].pc = "done" /\ task[2].pc = "done"
    /\ task[1].key = task[2].key
    /\ task[1].member \cap task[2].member # {}
    /\ task[1].res > 0 /\ task[2].res > 0
    /\ MembersBefore(task[1].key) \cap task[1].member # {}

----------------------------------------------------------------------------
(* Command construction: requests with values of other variants, with too
   few or too many arguments, and with keys that are not UTF-8.              *)

MaxArgCmds == 2

\* a request whose last element is the frame v
CmdV(words, v) == ArrayF(Cmd(words).v.items \o <<v>>)
F == <<"f">>
BadKey == <<XFF>>
OtherValues == {IntegerF(1), ArrayF(<<BulkStringF(<<"b">>)>>)}
PlainCalls ==
    { Cmd(<<set, A, <<"b">>>>), Cmd(<<hset, A, F, <<"b">>>>), Cmd(<<get, A>>),
      Cmd(<<hget, A, F>>), Cmd(<<hgetall, A>>), Cmd(<<echo, A>>),
      Cmd(<<sismember, A, <<"x">>>>) }
ValueCalls ==
    {CmdV(<<set, A>>, v) : v \in OtherValues} \cup {CmdV(<<hset, A, F>>, v) : v \in OtherValues}
ArityCalls ==
    { Cmd(<<get>>), Cmd(<<get, A, A>>), Cmd(<<set, A>>), Cmd(<<set, A, <<"b">>, <<"b">>>>),
      Cmd(<<hget, A>>), Cmd(<<hset, A, F>>), Cmd(<<hgetall>>), Cmd(<<hgetall, A, A>>),
      Cmd(<<echo>>), Cmd(<<echo, A, A>>), Cmd(<<hmget>>), Cmd(<<hmget, A>>),
      Cmd(<<hmget, A, F, <<"g">>, F>>), Cmd(<<sismember, A>>), Cmd(<<sadd, A>>),
      Cmd(<<sadd, A, <<"x">>, <<"y">>, <<"z">>>>) }
Utf8Calls ==
    { Cmd(<<get, BadKey>>), Cmd(<<set, BadKey, <<"b">>>>), Cmd(<<hget, BadKey, F>>),
      Cmd(<<hget, A, BadKey>>), Cmd(<<hset, BadKey, F, <<"b">>>>),
      Cmd(<<hset, A, BadKey, <<"b">>>>), Cmd(<<hgetall, BadKey>>),
      Cmd(<<hmget, BadKey, F>>), Cmd(<<hmget, A, F, BadKey>>) }
\* an ECHO of a message, and an unknown verb, that hold a CRLF
CrlfText == <<"a", CR, LF, "+", "b">>
CrlfCalls == {Cmd(<<echo, CrlfText>>), Cmd(<<CrlfText, A>>)}
ArgCalls == PlainCalls \cup ValueCalls \cup ArityCalls \cup Utf8Calls \cup CrlfCalls

ExecArg ==
    /\ Len(reqs) < MaxArgCmds
    /\ \E f \in ArgCalls : Run(f)
    /\ UNCHANGED <<plan, sock, script, peerClosed, rbuf, readable, pc,
                   lastDecode, framingErrs, afterErr>>
    /\ UNCHANGED cvars
    /\ UNCHANGED svars
    /\ UNCHANGED xvars
    /\ UNCHANGED lvars

ArgSpec == CmdInit /\ [][ExecArg]_vars

\* a request of n + 1 elements whose first n are non-null BulkStrings, the
\* first of them verb
IsStore(f, verb, n) ==
    /\ f.t = "Array" /\ f.v.some /\ Len(f.v.items) = n + 1
    /\ \A i \in 1..n : IsSomeBulk(f.v.items[i])
    /\ Verb(f) = verb

\* the value slot of the last SET on key among fs, NoFrame if there is none
RECURSIVE LastSetValue(_, _)
LastSetValue(fs, key) ==
    IF fs = <<>> THEN NoFrame
    ELSE LET f == fs[Len(fs)]
         IN IF IsStore(f, set, 2) /\ Arg(f, 1) = key /\ from_utf8_ok(key) THEN f.v.items[3]
            ELSE LastSetValue(Take(fs, Len(fs) - 1), key)

\* the value slot of the last HSET on (key, field) among fs
RECURSIVE LastHSetValue(_, _, _)
LastHSetValue(fs, key, field) ==
    IF fs = <<>> THEN NoFrame
    ELSE LET f == fs[Len(fs)]
         IN IF /\ IsStore(f, hset, 3) /\ Arg(f, 1) = key /\ Arg(f, 2) = field
               /\ from_utf8_ok(key) /\ from_utf8_ok(field)
            THEN f.v.items[4]
            ELSE LastHSetValue(Take(fs, Len(fs) - 1), key, field)

\* C22: SET and HSET with a value frame of any variant are answered OK, and a
\* later GET / HGET is answered with that frame
C22_AnyValueFrame ==
    \A i \in 1..Len(reqs) :
        LET f == reqs[i]
            past == Take(reqs, i - 1)
        IN /\ (IsStore(f, set, 2) /\ from_utf8_ok(Arg(f, 1))) => out[i] = SimpleStringF(<<"O", "K">>)
           /\ (/\ IsStore(f, hset, 3)
               /\ from_utf8_ok(Arg(f, 1)) /\ from_utf8_ok(Arg(f, 2)))
                 => out[i] = SimpleStringF(<<"O", "K">>)
           /\ (IsVerbCall(f, get, 1) /\ LastSetValue(past, Arg(f, 1)) # NoFrame)
                 => out[i] = LastSetValue(past, Arg(f, 1))
           /\ (IsVerbCall(f, hget, 2) /\ LastHSetValue(past, Arg(f, 1), Arg(f, 2)) # NoFrame)
                 => out[i] = LastHSetValue(past, Arg(f, 1), Arg(f, 2))

FixedArity == {get, set, hget, hset, hgetall, echo, sismember}
ArityOf(verb) ==
    CASE verb \in {get, hgetall, echo} -> 1
      [] verb \in {set, hget, sismember} -> 2
      [] verb = hset -> 3
\* the frame is an Array that starts with a non-null BulkString
HasVerb(f) == f.t = "Array" /\ f.v.some /\ f.v.items # <<>> /\ IsSomeBulk(f.v.items[1])
\* the request cur' was refused with InvalidArgument, the backend left as it was
RefusedInvalidArgument ==
    /\ ~Command_try_from(cur').ok
    /\ Command_try_from(cur').kind = "InvalidArgument"
    /\ reply'.t = "Error"
    /\ kv' = kv /\ hkv' = hkv

\* C23: a request for a fixed-arity verb with another number of elements than
\* n_args + 1, or for hmget with fewer than 3 elements, is refused with
\* InvalidArgument and leaves the backend alone; hmget and sadd take any number
\* of further BulkString arguments
C23_ArityValidation ==
    [][reqs' # reqs =>
          /\ (/\ HasVerb(cur') /\ Verb(cur') \in FixedArity
              /\ Len(cur'.v.items) # ArityOf(Verb(cur')) + 1) => RefusedInvalidArgument
          /\ (HasVerb(cur') /\ Verb(cur') = hmget /\ Len(cur'.v.items) < 3)
                => RefusedInvalidArgument
          /\ (/\ IsCall(cur') /\ Verb(cur') \in {hmget, sadd} /\ Len(cur'.v.items) >= 3
              /\ \A i \in 1..NArgs(cur') : from_utf8_ok(Arg(cur', i)))
                => (Command_try_from(cur').ok /\ reply'.t # "Error")]_vars

\* the request names one of the nine verbs with the number of BulkString
\* arguments it takes, one of its key or field arguments not being UTF-8
HasBadKey(f) ==
    /\ IsCall(f)
    /\ \/ Verb(f) \in FixedArity /\ NArgs(f) = ArityOf(Verb(f))
       \/ Verb(f) \in {hmget, sadd} /\ NArgs(f) >= 2
    /\ \E i \in 1..NArgs(f) :
          /\ ~from_utf8_ok(Arg(f, i))
          /\ \/ i = 1 /\ Verb(f) # echo
             \/ i = 2 /\ Verb(f) \in {hget, hset}
             \/ i >= 2 /\ Verb(f) = hmget

\* C24: a request with a key or field that is not UTF-8 is refused with
\* InvalidArgument, whatever the command, and leaves the backend alone
C24_NonUtf8Key ==
    [][(reqs' # reqs /\ HasBadKey(cur')) => RefusedInvalidArgument]_vars

----------------------------------------------------------------------------
(* Claims about sets, maps and integers on the wire, over the codec harness. *)

RECURSIVE Dedup(_)
\* the distinct elements of q in the order of their first occurrence
Dedup(q) ==
    IF q = <<>> THEN <<>>
    ELSE LET d == Dedup(Take(q, Len(q) - 1))
         IN IF \E i \in 1..Len(d) : d[i] = q[Len(q)] THEN d ELSE Append(d, q[Len(q)])

\* C25: a set is de-duplicated on decode. Decoding ~n followed by n encoded
\* elements returns the Set of the distinct elements in the order of their first
\* occurrence, and consumes the encodings of all n elements.
C25_SetDedup ==
    \A q \in ElemSeqs :
        (call = "decode" /\ before = SetWire(q))
            => (ret = OkFrame(SetF(Dedup(q))) /\ buf = <<>>)

\* C25 for the hand-written decoder
C25_SetDedupV1 ==
    \A q \in ElemSeqs :
        (call = "decode_v1" /\ before = SetWire(q))
            => (ret = OkFrame(SetF(Dedup(q))) /\ buf = <<>>)

C25_WitnessV1 ==
    /\ call = "decode_v1" /\ \E q \in ElemSeqs : ~NoDup(q) /\ before = SetWire(q)
    /\ ret.kind = "Ok"

\* C26: the number in a Map header is the number of (key, value) entries. The
\* encoder writes the entry count; on the encoding of a map of n entries
\* expect_length spans all n pairs and decode returns the map of n entries,
\* having read them all.
C26_MapCount ==
    (frame.t = "Map" /\ before = enc /\ call \in {"decode", "expect_length"})
        => /\ StartsWith(enc, <<"%">> \o NatToBytes(Cardinality(DOMAIN frame.v)) \o CRLF)
           /\ call = "expect_length" => ret = OkLen(Len(enc))
           /\ call = "decode" => (ret = OkFrame(frame) /\ buf = <<>>)

\* C26 for the hand-written decoder
C26_MapCountV1 ==
    (frame.t = "Map" /\ before = enc /\ call = "decode_v1")
        => (ret = OkFrame(frame) /\ buf = <<>>)

\* what C27 asks of a decode of an Integer line, as the fields of the result
IntegerRange(kinds) ==
    /\ (frame.t = "Integer" /\ before = enc) => (ret = OkFrame(frame) /\ buf = <<>>)
    /\ before = <<":">> \o I64MaxDigits \o CRLF
        => (ret = OkFrame(IntegerF(BigInt(FALSE, I64MaxDigits))) /\ buf = <<>>)
    /\ before = <<":", "-">> \o I64MinDigits \o CRLF
        => (ret = OkFrame(IntegerF(BigInt(TRUE, I64MinDigits))) /\ buf = <<>>)
    /\ before \in {<<":">> \o I64_MAX_PLUS_1 \o CRLF, <<":", "-">> \o I64_MIN_MINUS_1 \o CRLF}
        => ret.kind \in kinds

\* C27: integers are signed 64-bit. Every value from -2^63 to 2^63-1, both ends
\* included, decodes from its encoding to the same value, and a digit string whose
\* value lies outside that range makes decode fail with InvalidFrame.
C27_IntegerRange == call = "decode" => IntegerRange({"InvalidFrame"})

\* C27 for the hand-written decoder, whose failure is the ParseIntError
C27_IntegerRangeV1 == call = "decode_v1" => IntegerRange({"ParseIntError"})

\* the empty bulk string on the wire
EMPTY_BULK_STRING == <<"$", "0", CR, LF, CR, LF>>

\* C29: an empty bulk string is framed with its trailing CRLF. On a buffer that
\* starts with $0 CRLF CRLF, expect_length returns 6 and decode returns the
\* empty BulkString having consumed those 6 bytes, so that what follows in the
\* buffer is the start of the next frame.
C29_EmptyBulkFramed ==
    StartsWith(before, EMPTY_BULK_STRING)
        => /\ call = "expect_length" => ret = OkLen(Len(EMPTY_BULK_STRING))
           /\ call = "decode"
                => (ret = OkFrame(BulkStringF(<<>>))
                        /\ buf = Drop(before, Len(EMPTY_BULK_STRING)))

\* C29 for the hand-written decoder
C29_EmptyBulkFramedV1 ==
    (StartsWith(before, EMPTY_BULK_STRING) /\ call = "decode_v1")
        => (ret = OkFrame(BulkStringF(<<>>)) /\ buf = Drop(before, Len(EMPTY_BULK_STRING)))

\* the outcome of a decode as C30 compares it: the frame, NotCompleted, or a
\* framing error of whatever kind
Outcome(r) ==
    [kind |-> IF r.kind \in {"Ok", "NotCompleted"} THEN r.kind ELSE "Error",
     frame |-> r.frame]

\* C30: the two decoders are equivalent. On every buffer the combinator decoder
\* returns the outcome the hand-written decoder returns on it (the same frame,
\* NotCompleted in both, or a framing error in both) and leaves the same bytes.
C30_DecodersEquivalent ==
    LET same(d) == Outcome(ret) = Outcome(d.ret) /\ buf = d.buf
    IN call = "decode" => same(RespFrame_decode(before))

----------------------------------------------------------------------------
(* The listener: main of src/main.rs. Each accepted connection is handed to a *)
(* spawned task running handle_stream; accept may also return an error.       *)

MaxConns == 3      \* most connections accepted
MaxServed == 2     \* most requests answered on one connection

ListenInit == IdleCodec /\ IdleConn /\ snap = NoSnap /\ IdleTasks /\ IdleListener

\* listener.accept().await returned Ok: the task for the connection is spawned
AcceptOk ==
    /\ listener = "accept"
    /\ Len(conns) < MaxConns
    /\ conns' = Append(conns, [state |-> "open", served |-> 0])
    /\ UNCHANGED <<listener, acceptErrs>>
    /\ UNCHANGED <<cvars, nvars, svars, xvars>>

\* listener.accept().await returned Err: the ? operator returns it from main,
\* and with main the runtime ends and drops the tasks it had spawned
AcceptErr ==
    /\ listener = "accept"
    /\ listener' = "exited"
    /\ acceptErrs' = acceptErrs + 1
    /\ conns' = [i \in 1..Len(conns) |-> [conns[i] EXCEPT !.state = "closed"]]
    /\ UNCHANGED <<cvars, nvars, svars, xvars>>

\* the task of connection i answers one request: handle_stream's loop
Serve(i) ==
    /\ listener = "accept"
    /\ conns[i].state = "open"
    /\ conns[i].served < MaxServed
    /\ conns' = [conns EXCEPT ![i].served = @ + 1]
    /\ UNCHANGED <<listener, acceptErrs>>
    /\ UNCHANGED <<cvars, nvars, svars, xvars>>

\* handle_stream returns on connection i, and its task ends
ConnExit(i) ==
    /\ listener = "accept"
    /\ conns[i].state = "open"
    /\ conns' = [conns EXCEPT ![i].state = "closed"]
    /\ UNCHANGED <<listener, acceptErrs>>
    /\ UNCHANGED <<cvars, nvars, svars, xvars>>

ListenNext ==
    \/ AcceptOk
    \/ AcceptErr
    \/ \E i \in 1..Len(conns) : Serve(i)
    \/ \E i \in 1..Len(conns) : ConnExit(i)

ListenSpec == ListenInit /\ [][ListenNext]_vars

\* C28: the listener survives accept errors. After accept has failed main is
\* still in its accept loop, and a later connection can be accepted and served.
C28_ListenerSurvives ==
    acceptErrs > 0
        => /\ listener = "accept"
           /\ Len(conns) < MaxConns => ENABLED AcceptOk

----------------------------------------------------------------------------
(* Claims about map keys and about the replies, over the codec harness. *)

\* C31: map keys must be SimpleStrings. Decoding a complete Map encoding in which
\* some key position holds a frame of another type fails with InvalidFrame; it
\* yields no Map and does not report NotCompleted.
C31_MapKeysSimpleString ==
    (call = "decode" /\ before \in BadKeyMapInputs) => ret.kind = "InvalidFrame"

\* C31 for the hand-written decoder, whose framing error is InvalidFrameType
C31_MapKeysSimpleStringV1 ==
    (call = "decode_v1" /\ before \in BadKeyMapInputs) => ret.kind = "InvalidFrameType"

----------------------------------------------------------------------------
(* Backend::hset called by two tasks at once.  self.hmap.entry(key) locks the
   entry of the key and looks it up, or_default() inserts an empty hash when
   the entry is vacant, and the reference it returns keeps the entry locked
   until hset returns.                                                       *)

HKeys == {<<"a">>, <<"b">>}
HFields == {<<"f">>, <<"g">>}
HValues == {IntegerF(1), BulkStringF(<<"a">>)}
NoHSet == [pc |-> "idle", key |-> <<>>, field |-> <<>>, value |-> NoFrame, vacant |-> FALSE]

HSetInit ==
    /\ IdleCodec /\ IdleConn /\ snap = NoSnap
    /\ sets = <<>> /\ sets0 = <<>>
    /\ guard = [k \in HKeys |-> 0]
    /\ task = [t \in Tasks |-> NoHSet]
    /\ IdleListener

\* a task calls hset(key, field, value)
HSetCall(t) ==
    /\ task[t].pc = "idle"
    /\ \E key \in HKeys, field \in HFields, value \in HValues :
          task' = [task EXCEPT ![t] = [pc |-> "entry", key |-> key, field |-> field,
                                       value |-> value, vacant |-> FALSE]]
    /\ UNCHANGED <<sets, guard, sets0>>
    /\ UNCHANGED <<cvars, nvars, svars, lvars>>

\* self.hmap.entry(key): the entry is locked and found occupied or vacant
HSetEntry(t) ==
    /\ task[t].pc = "entry"
    /\ DashMap_entry_free(guard, task[t].key)
    /\ guard' = [guard EXCEPT ![task[t].key] = t]
    /\ task' = [task EXCEPT ![t].pc = "or_default",
                            ![t].vacant = task[t].key \notin DOMAIN hkv]
    /\ UNCHANGED <<sets, sets0>>
    /\ UNCHANGED <<cvars, nvars, svars, lvars>>

\* .or_default(): a vacant entry gets an empty hash
HSetOrDefault(t) ==
    /\ task[t].pc = "or_default"
    /\ hkv' = IF task[t].vacant THEN MapInsert(hkv, task[t].key, EmptyMap) ELSE hkv
    /\ task' = [task EXCEPT ![t].pc = "insert"]
    /\ UNCHANGED <<sets, guard, sets0>>
    /\ UNCHANGED <<plan, sock, script, peerClosed, rbuf, readable, pc, cur, reply, out, kv,
                   reqs, lastDecode, framingErrs, afterErr>>
    /\ UNCHANGED <<cvars, svars, lvars>>

\* hmap.insert(field, value); the reference is dropped as hset returns
HSetInsert(t) ==
    /\ task[t].pc = "insert"
    /\ hkv' = [hkv EXCEPT ![task[t].key] = MapInsert(@, task[t].field, task[t].value)]
    /\ guard' = [guard EXCEPT ![task[t].key] = IF @ = t THEN 0 ELSE @]
    /\ task' = [task EXCEPT ![t].pc = "done"]
    /\ UNCHANGED <<sets, sets0>>
    /\ UNCHANGED <<plan, sock, script, peerClosed, rbuf, readable, pc, cur, reply, out, kv,
                   reqs, lastDecode, framingErrs, afterErr>>
    /\ UNCHANGED <<cvars, svars, lvars>>

\* the orders in which an iteration can walk a DashMap with the keys S
Orders(S) == {o \in [1..Cardinality(S) -> S] : \A i, j \in 1..Cardinality(S) : o[i] = o[j] => i = j}
\* an insert that would put a new key behind the keys already there
RespMap_insert_last(keys, k) ==
    IF \E i \in 1..Len(keys) : keys[i] = k THEN keys ELSE Append(keys, k)
\* RespMap::insert, a BTreeMap::insert, on the iteration order of the keys
RespMap_insert(keys, k) ==
    LET lt(x) == LexLess(x, k)
        gt(x) == LexLess(k, x)
    IN SelectSeq(keys, lt) \o <<k>> \o SelectSeq(keys, gt)
\* the `for (k, v) in map { m.insert(k, v) }` loop of HGetAll::execute and
\* HMGet::execute walking the DashMap in the order ord: the iteration order of
\* the RespMap afterwards
RECURSIVE collect(_)
collect(ord) ==
    IF ord = <<>> THEN <<>>
    ELSE RespMap_insert(collect(SubSeq(ord, 1, Len(ord) - 1)), ord[Len(ord)])
\* RespMap::encode of the map so collected
encode_collected(m, ord) ==
    <<"%">> \o NatToBytes(Len(collect(ord))) \o CRLF \o encode_entries(m, collect(ord))

\* a reader asks for the hash at a key with HGETALL or HMGET; the reply is
\* collected from the DashMap in whatever order it iterates, and encoded
HSetRead ==
    /\ cur = NoFrame
    /\ \E f \in {Cmd(<<hgetall, k>>) : k \in HKeys}
                 \cup {Cmd(<<hmget, k, <<"g">>, <<"f">>>>) : k \in HKeys} :
          LET done(r) ==
                  /\ cur' = f /\ reply' = r.frame /\ kv' = r.kv /\ hkv' = r.hkv
                  /\ \E ord \in Orders(DOMAIN r.frame.v) : enc' = encode_collected(r.frame.v, ord)
          IN done(handle_request(f, kv, hkv))
    /\ UNCHANGED <<plan, sock, script, peerClosed, rbuf, readable, pc, out,
                   reqs, lastDecode, framingErrs, afterErr>>
    /\ UNCHANGED <<buf, before, pending, frame, call, ret, fed>>
    /\ UNCHANGED <<svars, xvars, lvars>>

HSetNext ==
    \/ \E t \in Tasks : HSetCall(t) \/ HSetEntry(t) \/ HSetOrDefault(t) \/ HSetInsert(t)
    \/ HSetRead

HSetSpec == HSetInit /\ [][HSetNext]_vars

\* C32: HSET creates the hash without losing updates. When two tasks have each
\* completed an HSET on the same key, which had no hash, with different fields,
\* HGETALL on that key holds both fields with their values.
C32_HSetNoLostUpdate ==
    \A t, u \in Tasks :
        (/\ task[t].pc = "done" /\ task[u].pc = "done"
         /\ task[t].key = task[u].key /\ task[t].field # task[u].field)
            => /\ task[t].field \in DOMAIN Backend_hgetall(hkv, task[t].key)
               /\ Backend_hgetall(hkv, task[t].key)[task[t].field] = task[t].value

\* both calls ran on one key, the second waiting at entry while the first held it
C32_Witness ==
    /\ task[1].pc = "done" /\ task[2].pc = "done"
    /\ task[1].key = task[2].key /\ task[1].field # task[2].field
    /\ ~task[1].vacant \/ ~task[2].vacant

\* C38: map replies are deterministic. The bytes of an HGETALL or HMGET reply
\* are fixed by the fields and values the reply holds, whatever the order the
\* HSETs came in and the order the hash was walked in, and its entries are in
\* ascending order of key.
C38_DeterministicMapReplies ==
    reply.t = "Map"
        => /\ enc = RespFrame_encode(MapF(reply.v))
           /\ \A k, j \in DOMAIN reply.v :
                  LexLess(k, j) => \E i \in 1..Len(enc) :
                      /\ SubSeq(enc, i, i + Len(k) + 2) = SimpleString_encode(k)
                      /\ \E i2 \in (i + 1)..Len(enc) :
                             SubSeq(enc, i2, i2 + Len(j) + 2) = SimpleString_encode(j)
\* a reply of two entries, from a hash whose field g was set before its field f
C38_Witness ==
    /\ reply.t = "Map" /\ DOMAIN reply.v = HFields
    /\ \E t, u \in Tasks :
          /\ task[t].pc = "done" /\ task[t].field = <<"g">> /\ task[t].vacant
          /\ task[u].pc = "done" /\ task[u].field = <<"f">> /\ ~task[u].vacant
          /\ task[t].key = task[u].key /\ task[t].key = Arg(cur, 1)

----------------------------------------------------------------------------
(* Claims about the replies of a connection. *)

\* C33: when decode fails with a framing error, the SimpleError frame written to
\* the client carries that error's description: the reply about to be sent for
\* the synthesized error frame is that frame, not an answer that command
\* conversion gave to it.
C33_FramingErrorDescribed ==
    (pc = "send" /\ lastDecode = "error") => reply = cur

\* the server's own codec takes the encoding of f for exactly the frame f
WellFormed(f) ==
    LET takes(e) ==
            /\ RespDecodeV2_expect_length(e) = OkLen(Len(e))
            /\ RespDecodeV2_decode(e) = [ret |-> OkFrame(f), buf |-> <<>>]
    IN takes(RespFrame_encode(f))

\* C34: every reply is well-formed for the server's own codec. On the encoding
\* of a reply that command execution or error reporting produced, expect_length
\* is the length of the encoding and decode returns the reply; so it is for the
\* empty Map that HGETALL and HMGET reply on a miss.
C34_RepliesWellFormed == reply # NoFrame => WellFormed(reply)

\* C35: no SimpleString and no SimpleError the server writes holds a CR or an
\* LF in its text, whatever the client sent, so that each such reply is one
\* frame on the wire: decoding its encoding takes all of it.
C35_NoLineBreakInReplyText ==
    reply.t \in {"SimpleString", "Error"}
        => /\ \A i \in 1..Len(reply.v) : reply.v[i] \notin {CR, LF}
           /\ RespDecodeV2_decode(RespFrame_encode(reply)).buf = <<>>

----------------------------------------------------------------------------
(* The store: the three containers of the backend under the commands of the
   connections, the calls of Backend::sadd and Backend::is_member that tasks
   holding a clone of the backend make, and the closing of connections.      *)

MaxStoreCmds == 2      \* most requests handled, over all connections
MaxBackendCalls == 2   \* most calls of sadd and is_member the task makes

\* a sadd that would keep the set at key alone in its container
Backend_sadd_alone(s, key, member) ==
    LET old == IF key \in DOMAIN s THEN s[key] ELSE {}
    IN [set |-> MapInsert(EmptyMap, key, old \cup member), res |-> Cardinality(member \ old)]
\* Backend::sadd(key, member): the container afterwards and the number returned
Backend_sadd(s, key, member) ==
    LET old == IF key \in DOMAIN s THEN s[key] ELSE {}
    IN [set |-> MapInsert(s, key, old \cup member), res |-> Cardinality(member \ old)]
\* Backend::is_member(key, member)
Backend_is_member(s, key, member) == IF key \in DOMAIN s /\ member \in s[key] THEN 1 ELSE 0

B == <<"b">>
StoreReqs ==
    { Cmd(<<set, A, <<"b">>>>), Cmd(<<set, B, <<"c">>>>), Cmd(<<get, A>>),
      Cmd(<<hset, A, F, <<"b">>>>), Cmd(<<hset, A, <<"g">>, <<"c">>>>),
      CmdV(<<hset, A, F>>, NullF), CmdV(<<set, A>>, NullF),
      Cmd(<<hget, A, F>>), Cmd(<<hgetall, B>>),
      Cmd(<<hmget, A, F, <<"g">>>>), Cmd(<<echo, A>>),
      Cmd(<<sismember, A, <<"x">>>>) }
StoreMembers == {BulkStringF(<<"x">>).v, BulkStringF(<<"y">>).v}
\* the task that calls the backend directly
Caller == CHOOSE t \in Tasks : \A u \in Tasks : t <= u
\* requests handled so far
Served == conns[1].served + conns[2].served
\* a task's last call of the backend, and the number of calls it has made
NoStoreCall == [op |-> "none", key |-> <<>>, member |-> {}, res |-> 0, n |-> 0]

StoreInit ==
    /\ IdleCodec /\ IdleConn /\ snap = NoSnap
    /\ sets = EmptyMap /\ sets0 = EmptyMap /\ guard = <<>>
    /\ task = [t \in Tasks |-> NoStoreCall]
    /\ listener = "accept" /\ acceptErrs = 0
    /\ conns = [i \in 1..2 |-> [state |-> "open", served |-> 0]]

\* a connection's task handles one request: handle_request
StoreExec(i) ==
    /\ conns[i].state = "open"
    /\ Served < MaxStoreCmds
    /\ \E f \in StoreReqs :
          LET done(r) == cur' = f /\ reply' = r.frame /\ kv' = r.kv /\ hkv' = r.hkv
          IN done(handle_request(f, kv, hkv))
    /\ conns' = [conns EXCEPT ![i].served = @ + 1]
    /\ UNCHANGED <<plan, sock, script, peerClosed, rbuf, readable, pc, out,
                   reqs, lastDecode, framingErrs, afterErr>>
    /\ UNCHANGED <<listener, acceptErrs>>
    /\ UNCHANGED <<cvars, svars, xvars>>

\* a task calls backend.sadd(key, member)
StoreSAdd(t) ==
    /\ task[t].n < MaxBackendCalls
    /\ \E key \in {A, B}, member \in {{BulkStringF(<<"x">>).v}, StoreMembers} :
          LET r == Backend_sadd(sets, key, member)
          IN /\ sets' = r.set
             /\ task' = [task EXCEPT ![t] = [op |-> "sadd", key |-> key, member |-> member,
                                             res |-> r.res, n |-> task[t].n + 1]]
    /\ UNCHANGED <<guard, sets0>>
    /\ UNCHANGED <<cvars, nvars, svars, lvars>>

\* a task calls backend.is_member(key, member)
StoreIsMember(t) ==
    /\ task[t].n < MaxBackendCalls
    /\ \E key \in {A, B}, member \in StoreMembers :
          task' = [task EXCEPT ![t] = [op |-> "is_member", key |-> key, member |-> {member},
                                       res |-> Backend_is_member(sets, key, member),
                                       n |-> task[t].n + 1]]
    /\ UNCHANGED <<sets, guard, sets0>>
    /\ UNCHANGED <<cvars, nvars, svars, lvars>>

\* a close that would take the stored data with the connection
StoreConnClose_owning(i) ==
    /\ conns[i].state = "open"
    /\ conns' = [conns EXCEPT ![i].state = "closed"]
    /\ kv' = EmptyMap /\ hkv' = EmptyMap /\ sets' = EmptyMap
    /\ UNCHANGED <<plan, sock, script, peerClosed, rbuf, readable, pc, cur, reply, out,
                   reqs, lastDecode, framingErrs, afterErr>>
    /\ UNCHANGED <<guard, task, sets0>>
    /\ UNCHANGED <<listener, acceptErrs>>
    /\ UNCHANGED <<cvars, svars>>
\* handle_stream returns on connection i, at end of input or on an error, and
\* its clone of the backend is dropped
StoreConnClose(i) ==
    /\ conns[i].state = "open"
    /\ conns' = [conns EXCEPT ![i].state = "closed"]
    /\ UNCHANGED <<listener, acceptErrs>>
    /\ UNCHANGED <<cvars, nvars, svars, xvars>>

StoreNext ==
    \/ \E i \in 1..Len(conns) : StoreExec(i)
    \/ StoreSAdd(Caller)
    \/ StoreIsMember(Caller)
    \/ \E i \in 1..Len(conns) : StoreConnClose(i)

StoreSpec == StoreInit /\ [][StoreNext]_vars

\* a request was handled in this step
Handled == Served' = Served + 1
\* the task called the backend in this step
Called(op) == task'[Caller].n = task[Caller].n + 1 /\ task'[Caller].op = op

\* container m2 is container m but for what it holds at key
OnlyAt(m, m2, key) ==
    /\ DOMAIN m2 = DOMAIN m \cup {key}
    /\ \A k \in DOMAIN m \ {key} : m2[k] = m[k]
\* C37: the three containers are independent. A SET on k changes kv at k and
\* nothing else; an HSET on k, f changes field f of the hash at k and nothing
\* else; a sadd on k changes the set at k and nothing else.
C37_ContainersIndependent ==
    [][ /\ (Handled /\ Verb(cur') = set /\ reply' = RESP_OK)
            => /\ OnlyAt(kv, kv', Arg(cur', 1))
               /\ hkv' = hkv /\ sets' = sets
        /\ (Handled /\ Verb(cur') = hset /\ reply' = RESP_OK)
            => /\ OnlyAt(hkv, hkv', Arg(cur', 1))
               /\ OnlyAt(Backend_hgetall(hkv, Arg(cur', 1)), hkv'[Arg(cur', 1)], Arg(cur', 2))
               /\ kv' = kv /\ sets' = sets
        /\ Called("sadd")
            => /\ OnlyAt(sets, sets', task'[Caller].key)
               /\ kv' = kv /\ hkv' = hkv ]_vars
\* one key holds a string, a hash and a set at once, and a sadd on another key
\* has just left all three alone
C37_Witness ==
    /\ A \in DOMAIN kv /\ A \in DOMAIN hkv /\ A \in DOMAIN sets
    /\ task[Caller].op = "sadd" /\ task[Caller].key = B /\ task[Caller].n = 2

\* what GET key and HGET key field answer on the containers m and h
GetReply(m, h, key) == execute([c |-> "Get", key |-> key], m, h).frame
HGetReply(m, h, key, field) ==
    execute([c |-> "HGet", key |-> key, field |-> field], m, h).frame

ReadOnlyVerbs == {get, hget, hgetall, hmget, sismember, echo}
ReadOnlyStep == (Handled /\ Verb(cur') \in ReadOnlyVerbs) \/ Called("is_member")
C36_ReadOnlyCommands ==
    [][ReadOnlyStep => kv' = kv /\ hkv' = hkv /\ sets' = sets]_vars
\* HGETALL of an absent key was answered beside a stored hash, and is_member
\* asked about an absent key beside a stored set
C36_Witness ==
    /\ cur = Cmd(<<hgetall, B>>) /\ reply = MapF(EmptyMap)
    /\ hkv # EmptyMap /\ B \notin DOMAIN hkv
    /\ task[Caller].op = "is_member" /\ task[Caller].res = 0
    /\ sets # EmptyMap /\ task[Caller].key \notin DOMAIN sets

====
